---- MODULE Spec2Model ----
(***************************************************************************)
(* A model of the Agent2Agent demonstration system: the HTTP agents that   *)
(* accept JSON-RPC tasks (agents A, B, D, Agent1, the demo agent server    *)
(* and the orchestrating Agent E) and the DynamicDiscoveryClient.          *)
(*                                                                         *)
(* Every agent is a single-threaded Node.js process: a handler runs from   *)
(* one await to the next without interruption, so one action of the model  *)
(* is one such run (an HTTP handler up to its first await, or the          *)
(* continuation of an async function after an await).  The processes share *)
(* no memory; `self' is the process whose state the behaviour describes,   *)
(* and the processes it calls over HTTP are its environment.               *)
(***************************************************************************)
EXTENDS Integers, Sequences, FiniteSets, TLC

VARIABLES
  self,        \* the process that runs
  tasks,       \* this.tasks: Map taskId -> task record, in insertion order
  proc,        \* position of the async handler of each task
  http,        \* the response to the /rpc request served last
  accepted,    \* task ids carried by the acceptance responses emitted so far
  discoveredAgents,  \* this.discoveredAgents of Agent E, in insertion order
  delegationCount,   \* this.delegationCount
  fallbackCount,     \* this.fallbackCount
  lastDiscovery,     \* this.lastDiscovery: null, or the time the last pass ended
  timer,       \* the discovery pass started by the constructor or by setInterval
  env,         \* the servers that listen on the ports the process probes
  events,      \* the changes of env so far
  agents,      \* this.agents of the AdvancedSystemOrchestrator, in insertion order
  spawned      \* the child processes the orchestrator has spawned so far

taskVars == <<tasks, proc, http, accepted>>
registryVars == <<discoveredAgents, delegationCount, fallbackCount, lastDiscovery>>
envVars == <<timer, env, events>>
supervisorVars == <<agents, spawned>>
vars == <<self, tasks, proc, http, accepted, discoveredAgents, delegationCount,
          fallbackCount, lastDiscovery, timer, env, events, agents, spawned>>

-----------------------------------------------------------------------------
(* Bounds of the model *)

\* tasks accepted by one process
MaxTasks == 2
\* status polls of one waiter before its wall-clock ceiling has elapsed
MaxPolls == 2
\* tasks accepted by Agent E
MaxRouted == 1
\* changes of the servers a process probes
MaxEvents == 1

-----------------------------------------------------------------------------
(* JavaScript values *)

Num(n) == [t |-> "number", v |-> n]
Undef == [t |-> "undefined", v |-> 0]
IsNumber(x) == x.t = "number"

\* an optional field of a record: absent (undefined or null) or present
None == <<>>
Some(v) == <<v>>
Present(o) == Len(o) = 1

\* the elements of an array
Range(seq) == {seq[i] : i \in DOMAIN seq}

\* the outcome of running a function: a returned value or a thrown Error
Return(v) == [ok |-> TRUE, val |-> v, msg |-> ""]
Throw(m) == [ok |-> FALSE, val |-> [kind |-> "none"], msg |-> m]

NoParams ==
  [text |-> "", operation |-> "", a |-> Undef, b |-> Undef,
   include_sentiment |-> TRUE, include_language |-> TRUE, operations |-> <<>>]

Texts == {"", "good day"}

-----------------------------------------------------------------------------
(* The agents and the requests sent to them *)

LeafAgents == {"agent-a", "agent-b", "agent-d", "agent1", "agent-server"}

Agents == LeafAgents \cup {"agent-e"}

supportedMethods(agent) ==
  CASE agent = "agent-a" -> {"text_analysis", "text_transform", "text_validation"}
    [] agent = "agent-b" -> {"basic_math", "advanced_math", "statistical_analysis",
                             "equation_solving"}
    [] agent = "agent-d" -> {"language_detection", "multilingual_analysis",
                             "language_statistics", "batch_language_detection"}
    [] agent = "agent1" -> {"process_text_chain"}
    [] agent = "agent-server" -> {"text_analysis", "math_operation"}
    [] agent = "agent-e" -> {"intelligent_text_analysis", "smart_text_processing",
                             "orchestrator_status", "force_discovery"}
    [] OTHER -> {}

\* the methods a client may name: the agent's own, one no agent knows, and none
RequestMethods(agent) == supportedMethods(agent) \cup {"unknown_method", ""}

TextParams == {[NoParams EXCEPT !.text = x] : x \in Texts}

Math(operation, a, b) == [NoParams EXCEPT !.operation = operation, !.a = a, !.b = b]

TextOp(text, operation) == [NoParams EXCEPT !.text = text, !.operation = operation]

Analysis(text, sentiment, language) ==
  [NoParams EXCEPT !.text = text, !.include_sentiment = sentiment,
                   !.include_language = language]

Smart(text, operations) == [NoParams EXCEPT !.text = text, !.operations = operations]

\* the inputs of each method: well-formed ones and ones its handler rejects
RequestParams(agent, method) ==
  CASE method \in {"basic_math", "math_operation"} ->
         {Math("add", Num(6), Num(3)), Math("divide", Num(6), Num(0)),
          Math("power", Undef, Num(3))}
    [] method = "advanced_math" -> {Math("power", Num(6), Num(3))}
    [] method = "text_transform" ->
         {TextOp("good day", "uppercase"), TextOp("good day", "rot13")}
    [] method = "text_validation" -> {TextOp("good day", "")}
    [] method \in {"text_analysis", "language_detection"} -> TextParams
    [] method = "process_text_chain" -> {TextOp("good day", "")}
    [] method = "intelligent_text_analysis" ->
         {Analysis("good day", TRUE, TRUE), Analysis("good day", TRUE, FALSE),
          Analysis("", TRUE, TRUE)}
    [] method = "smart_text_processing" ->
         {Smart("good day", <<"analyze", "language", "translate">>)}
    [] OTHER -> {NoParams}

\* for each method one envelope of another protocol version and one without an id
Malformed(agent) ==
  UNION {LET p == CHOOSE q \in RequestParams(agent, m) : TRUE
         IN {[jsonrpc |-> "1.0", method |-> m, params |-> p, id |-> "req-1"],
             [jsonrpc |-> "2.0", method |-> m, params |-> p, id |-> ""]} :
         m \in RequestMethods(agent)}

\* the requests a client sends: the well-formed envelopes and the malformed ones
Requests(agent) ==
  UNION {{[jsonrpc |-> "2.0", method |-> m, params |-> p, id |-> "req-1"] :
            p \in RequestParams(agent, m)} : m \in RequestMethods(agent)}
  \cup Malformed(agent)

-----------------------------------------------------------------------------
(* Task records and HTTP responses *)

\* a task as /rpc stores it; result, error and message are absent (or null)
NewTask(id, req, status) ==
  [id |-> id, method |-> req.method, params |-> req.params, status |-> status,
   result |-> None, error |-> None, message |-> None]

\* the status written, the result not yet
CompletedBeforeResult(task, result) ==
  [task EXCEPT !.status = "completed"]

\* task.status = 'completed'; task.result = result (no await in between)
Completed(task, result) ==
  [task EXCEPT !.status = "completed", !.result = Some(result)]

\* task.status = 'failed'; task.error = error.message (no await in between)
Failed(task, msg) ==
  [task EXCEPT !.status = "failed", !.error = Some(msg)]

\* Agent1 keeps the message of the error in task.message
FailedMessage(task, msg) ==
  [task EXCEPT !.status = "failed", !.message = Some(msg)]

\* no response was emitted yet
NoResponse == [code |-> 0, error |-> 0, task_id |-> 0, status |-> ""]

\* res.status(400).json({jsonrpc: '2.0', error: {code, message}, id})
RpcError(httpCode, errCode) ==
  [code |-> httpCode, error |-> errCode, task_id |-> 0, status |-> ""]

\* res.json({jsonrpc: '2.0', result: {task_id, status: 'accepted'}, id})
RpcAccepted(taskId) ==
  [code |-> 200, error |-> 0, task_id |-> taskId, status |-> "accepted"]

\* a store that serves the tasks still in progress only
TaskResponseInProgress(store, taskId) ==
  IF taskId \in DOMAIN store /\ store[taskId].status = "processing"
    THEN [code |-> 200, task_id |-> taskId, status |-> store[taskId].status,
          result |-> store[taskId].result, error |-> store[taskId].error,
          message |-> store[taskId].message]
    ELSE [code |-> 404, task_id |-> taskId, status |-> "",
          result |-> None, error |-> None, message |-> None]

\* GET /task/:taskId: res.json(task), or 404 when the store has no such task
TaskResponse(store, taskId) ==
  IF taskId \in DOMAIN store
    THEN [code |-> 200, task_id |-> taskId, status |-> store[taskId].status,
          result |-> store[taskId].result, error |-> store[taskId].error,
          message |-> store[taskId].message]
    ELSE [code |-> 404, task_id |-> taskId, status |-> "",
          result |-> None, error |-> None, message |-> None]

-----------------------------------------------------------------------------
(* The task handlers of the leaf agents.  What a handler checks and throws  *)
(* is modelled; the value it computes from a well-formed input is a record  *)
(* that names the handler and the input.                                    *)

Value(kind, by, text, num) == [kind |-> kind, by |-> by, text |-> text, num |-> num]

\* Agent A
analyzeText(text) ==
  IF text = "" THEN Throw("Text is required")
  ELSE Return(Value("text_analysis", "agent-a", text, 0))

transformText(text, operation) ==
  IF text = "" THEN Throw("Text is required")
  ELSE IF operation = "" THEN Throw("Operation is required")
  ELSE IF operation \in {"uppercase", "lowercase", "reverse", "title_case", "sentence_case"}
    THEN Return(Value("text_transform", "agent-a", text, 0))
  ELSE Throw("Unsupported operation")

validateText(text, validationType) ==
  IF text = "" THEN Throw("Text is required")
  ELSE IF validationType = "" THEN Throw("Validation type is required")
  ELSE IF validationType \in {"email", "url", "phone", "alphanumeric"}
    THEN Return(Value("text_validation", "agent-a", text, 0))
  ELSE Throw("Unsupported validation type")

AgentAHandler(method, params) ==
  CASE method = "text_analysis" -> analyzeText(params.text)
    [] method = "text_transform" -> transformText(params.text, params.operation)
    [] method = "text_validation" -> validateText(params.text, params.operation)
    [] OTHER -> Throw("Unsupported method")

\* Agent B
RECURSIVE Pow(_, _)
Pow(a, b) == IF b = 0 THEN 1 ELSE a * Pow(a, b - 1)

\* a division that returns Infinity instead of throwing
performBasicMathInfinity(params) ==
  Return(Value("basic_math", "agent-b", params.operation, 0))

performBasicMath(params) ==
  LET operation == params.operation
      a == params.a
      b == params.b
  IN IF ~IsNumber(a) \/ (operation # "sqrt" /\ ~IsNumber(b))
       THEN Throw("Invalid numeric parameters")
     ELSE CASE operation = "add" -> Return(Value("basic_math", "agent-b", operation, a.v + b.v))
            [] operation = "subtract" -> Return(Value("basic_math", "agent-b", operation, a.v - b.v))
            [] operation = "multiply" -> Return(Value("basic_math", "agent-b", operation, a.v * b.v))
            [] operation = "divide" ->
                 IF b.v = 0 THEN Throw("Division by zero")
                 ELSE Return(Value("basic_math", "agent-b", operation, a.v \div b.v))
            [] operation = "modulo" ->
                 IF b.v = 0 THEN Throw("Modulo by zero")
                 ELSE Return(Value("basic_math", "agent-b", operation, a.v % b.v))
            [] OTHER -> Throw("Unsupported basic operation")

performAdvancedMath(params) ==
  LET operation == params.operation
      a == params.a
      b == params.b
  IN IF ~IsNumber(a) THEN Throw("Invalid numeric parameter")
     ELSE IF operation = "power"
       THEN IF ~IsNumber(b) THEN Throw("Power requires two parameters")
            ELSE Return(Value("advanced_math", "agent-b", operation, Pow(a.v, b.v)))
     ELSE Throw("Unsupported advanced operation")

\* the requests of the model carry no numbers array and no coefficients
performStatisticalAnalysis(params) ==
  Throw("Numbers array is required and cannot be empty")

solveEquation(params) ==
  Throw("Equation type and coefficients array are required")

AgentBHandler(method, params) ==
  CASE method = "basic_math" -> performBasicMath(params)
    [] method = "advanced_math" -> performAdvancedMath(params)
    [] method = "statistical_analysis" -> performStatisticalAnalysis(params)
    [] method = "equation_solving" -> solveEquation(params)
    [] OTHER -> Throw("Unsupported method")

\* Agent D: every handler validates its input before its first await
AgentDHandler(method, params) ==
  CASE method \in {"language_detection", "multilingual_analysis", "language_statistics"} ->
         IF params.text = "" THEN Throw("Invalid text parameter")
         ELSE Return(Value(method, "agent-d", params.text, 0))
    [] method = "batch_language_detection" ->
         Throw("Invalid texts parameter - must be an array")
    [] OTHER -> Throw("Unknown method")

\* the demo agent server
DemoHandler(method, params) ==
  CASE method = "text_analysis" ->
         Return(Value("text_analysis", "agent-server", params.text, Len(params.text)))
    [] method = "math_operation" ->
         (CASE params.operation = "add" ->
                 Return(Value("math", "agent-server", "add", params.a.v + params.b.v))
            [] params.operation = "subtract" ->
                 Return(Value("math", "agent-server", "subtract", params.a.v - params.b.v))
            [] params.operation = "multiply" ->
                 Return(Value("math", "agent-server", "multiply", params.a.v * params.b.v))
            [] params.operation = "divide" ->
                 IF params.b.v # 0
                   THEN Return(Value("math", "agent-server", "divide", params.a.v \div params.b.v))
                   ELSE Return(Value("math", "agent-server", "Error: Division by zero", 0))
            [] OTHER -> Throw("Unsupported operation"))
    [] OTHER -> Throw("Unsupported method")

Handler(agent, method, params) ==
  CASE agent = "agent-a" -> AgentAHandler(method, params)
    [] agent = "agent-b" -> AgentBHandler(method, params)
    [] agent = "agent-d" -> AgentDHandler(method, params)
    [] agent = "agent-server" -> DemoHandler(method, params)
    [] OTHER -> Throw("no handler")

-----------------------------------------------------------------------------
(* Handler positions *)

NoAgent == [id |-> "", type |-> "", url |-> 0, rev |-> 0]

NoAcc ==
  [delegation_used |-> FALSE, agents |-> <<>>, fallbacks |-> <<>>, performed |-> <<>>,
   sentiment |-> None, language |-> None]

\* the handler of a task waits at `pc'; the other fields are its local variables
NewProc(pc) ==
  [pc |-> pc, polls |-> 0, slept |-> FALSE, port |-> 0, stable |-> TRUE,
   op |-> 0, agent |-> NoAgent, acc |-> NoAcc, elapsed |-> 0, over |-> 0]

\* Date.now() - startTime < maxWaitTime has failed: never before the first read,
\* always once MaxPolls reads were made, otherwise as the clock has it
Expired(polls) ==
  IF polls = 0 THEN {FALSE} ELSE IF polls >= MaxPolls THEN {TRUE} ELSE BOOLEAN

-----------------------------------------------------------------------------
(* POST /rpc of the leaf agents *)

InvalidRequest == -32600
MethodNotFound == -32601

\* /rpc without the check of the protocol version
RpcCheckAnyVersion(agent, req) ==
  IF agent \in {"agent-a", "agent-b", "agent1"} /\ req.method \notin supportedMethods(agent)
    THEN MethodNotFound
  ELSE IF agent \in {"agent-d", "agent-e"} /\ req.method = "" THEN InvalidRequest
  ELSE 0

\* the checks /rpc makes before it creates a task: 0, or the JSON-RPC error code
RpcCheck(agent, req) ==
  CASE agent \in {"agent-a", "agent-b", "agent1"} ->
         IF req.jsonrpc # "2.0" THEN InvalidRequest
         ELSE IF req.method \notin supportedMethods(agent) THEN MethodNotFound
         ELSE 0
    [] agent = "agent-d" ->
         IF req.jsonrpc # "2.0" \/ req.method = "" \/ req.id = "" THEN InvalidRequest
         ELSE 0
    [] agent = "agent-server" ->
         IF req.jsonrpc # "2.0" THEN InvalidRequest ELSE 0
    [] agent = "agent-e" ->
         IF req.jsonrpc # "2.0" THEN InvalidRequest
         ELSE IF req.method = "" THEN InvalidRequest
         ELSE 0
    [] OTHER -> InvalidRequest

\* the handler from its call in /rpc to its first await.  Agents A, B, Agent1 and
\* the demo server (which moves the task from 'pending' to 'processing' here)
\* reach a timer; Agent D validates the input first, and a throw fails the task
\* before any other request is served.
StartHandler(agent, task) ==
  CASE agent = "agent-d" ->
         LET out == AgentDHandler(task.method, task.params)
         IN IF out.ok THEN [task |-> task, proc |-> NewProc("timer")]
            ELSE [task |-> Failed(task, out.msg), proc |-> NewProc("done")]
    [] agent = "agent-server" ->
         [task |-> [task EXCEPT !.status = "processing"], proc |-> NewProc("timer")]
    [] OTHER -> [task |-> task, proc |-> NewProc("timer")]

Rpc(req) ==
  /\ self \in LeafAgents
  /\ LET code == RpcCheck(self, req)
         id == Len(tasks) + 1
         st == StartHandler(self, NewTask(id, req, IF self = "agent-server" THEN "pending"
                                                   ELSE "processing"))
     IN IF code # 0
          THEN /\ http' = RpcError(400, code)
               /\ UNCHANGED <<tasks, proc, accepted>>
          ELSE /\ Len(tasks) < MaxTasks
               /\ tasks' = Append(tasks, st.task)
               /\ proc' = Append(proc, st.proc)
               /\ http' = RpcAccepted(id)
               /\ accepted' = accepted \cup {http'.task_id}
  /\ UNCHANGED <<self, supervisorVars, registryVars, envVars>>

\* GET /task/:taskId, for a stored id or for one that was never issued: the
\* handler answers TaskResponse(tasks, taskId) and changes nothing
GetTask(taskId) ==
  /\ TaskResponse(tasks, taskId).code \in {200, 404}
  /\ UNCHANGED vars

\* processTask whose catch block also runs for an error raised after completion
ProcessTaskLateCatch(t) ==
  /\ self \in LeafAgents \ {"agent1"}
  /\ proc[t].pc \in {"timer", "done"}
  /\ tasks[t].status # "failed"
  /\ LET out == Handler(self, tasks[t].method, tasks[t].params)
     IN tasks' = [tasks EXCEPT ![t] = IF out.ok /\ proc[t].pc = "timer"
                                        THEN Completed(@, out.val)
                                      ELSE [@ EXCEPT !.status = "failed"]]
  /\ proc' = [proc EXCEPT ![t].pc = "done"]
  /\ UNCHANGED <<self, supervisorVars, http, accepted, registryVars, envVars>>

\* processTask that reads method and params from a variable every request
\* overwrites, instead of from its own arguments
ProcessTaskShared(t) ==
  /\ self \in LeafAgents \ {"agent1"}
  /\ proc[t].pc = "timer"
  /\ LET last == tasks[Len(tasks)]
         out == Handler(self, last.method, last.params)
     IN tasks' = [tasks EXCEPT ![t] = IF out.ok THEN Completed(@, out.val)
                                      ELSE Failed(@, out.msg)]
  /\ proc' = [proc EXCEPT ![t].pc = "done"]
  /\ UNCHANGED <<self, supervisorVars, http, accepted, registryVars, envVars>>

\* processTask after its timer: run the handler and record the outcome
ProcessTask(t) ==
  /\ self \in LeafAgents \ {"agent1"}
  /\ proc[t].pc = "timer"
  /\ LET out == Handler(self, tasks[t].method, tasks[t].params)
     IN tasks' = [tasks EXCEPT ![t] = IF out.ok THEN Completed(@, out.val)
                                      ELSE Failed(@, out.msg)]
  /\ proc' = [proc EXCEPT ![t].pc = "done"]
  /\ UNCHANGED <<self, supervisorVars, http, accepted, registryVars, envVars>>

-----------------------------------------------------------------------------
(* Agent1: processTextChain and waitForAgent2Completion *)

\* the timer of step 1 fires; the text is processed and POSTed to Agent2
ChainTimer(t) ==
  /\ self = "agent1"
  /\ proc[t].pc = "timer"
  /\ proc' = [proc EXCEPT ![t].pc = "post"]
  /\ UNCHANGED <<self, supervisorVars, tasks, http, accepted, registryVars, envVars>>

\* the next iteration of the while loop of the waiter: read again, or time out
ChainLoop(t, expired, slept) ==
  IF expired
    THEN /\ tasks' = [tasks EXCEPT ![t] = FailedMessage(@, "Agent2 task timeout")]
         /\ proc' = [proc EXCEPT ![t].pc = "done"]
    ELSE /\ proc' = [proc EXCEPT ![t].pc = "poll", ![t].polls = @ + 1, ![t].slept = slept]
         /\ UNCHANGED tasks

\* the answer of Agent2 to the POST: an accepted task, or an error
ChainPost(t, answer) ==
  /\ self = "agent1"
  /\ proc[t].pc = "post"
  /\ IF answer = "error"
       THEN /\ tasks' = [tasks EXCEPT ![t] = FailedMessage(@, "Request failed")]
            /\ proc' = [proc EXCEPT ![t].pc = "done"]
       ELSE ChainLoop(t, FALSE, FALSE)
  /\ UNCHANGED <<self, supervisorVars, http, accepted, registryVars, envVars>>

\* the answer of Agent2 to GET /task: processing sleeps pollInterval; failed and
\* any error but 404 are caught and the loop goes on at once
ChainPoll(t, answer, expired) ==
  /\ self = "agent1"
  /\ proc[t].pc = "poll"
  /\ expired \in Expired(proc[t].polls)
  /\ CASE answer = "completed" ->
            /\ tasks' = [tasks EXCEPT ![t] =
                           Completed(@, Value("chain", "agent1", @.params.text, 3))]
            /\ proc' = [proc EXCEPT ![t].pc = "done"]
       [] answer = "not_found" ->
            /\ tasks' = [tasks EXCEPT ![t] = FailedMessage(@, "Agent2 task not found")]
            /\ proc' = [proc EXCEPT ![t].pc = "done"]
       [] answer = "processing" -> ChainLoop(t, expired, TRUE)
       [] OTHER -> ChainLoop(t, expired, FALSE)
  /\ UNCHANGED <<self, supervisorVars, http, accepted, registryVars, envVars>>

-----------------------------------------------------------------------------
(* The servers Agent E probes *)

portRange == <<4001, 4002, 4003, 4004>>

\* this.discoveryPorts of the DynamicDiscoveryClient
discoveryPorts == <<4001, 4002, 4003, 4004, 4005>>

\* the ports the process probes
Ports == IF self = "client" THEN discoveryPorts ELSE portRange

Down == [state |-> "down", id |-> "", type |-> "", rev |-> 0]

\* the agent card served on each port by the agent of the repository that
\* listens there; Agent D publishes its id as agent_id, so its card has no id
AgentCard(port) ==
  CASE port = 4001 -> [id |-> "text-processor-agent-a", type |-> "text-processor"]
    [] port = 4002 -> [id |-> "math-calculator-agent-b", type |-> "math-calculator"]
    [] port = 4003 -> [id |-> "sentiment-analyzer-agent-c", type |-> "sentiment-analyzer"]
    [] port = 4004 -> [id |-> "", type |-> "language-detector"]
    [] OTHER -> [id |-> "intelligent-orchestrator-agent-e", type |-> "intelligent-orchestrator"]

\* a server on `port': it answers /status with status ok ("up") or with another
\* status ("notok"), or it accepts connections and never replies ("silent"); rev
\* tells the cards of successive starts apart
Server(state, port, rev) ==
  [state |-> state, id |-> AgentCard(port).id, type |-> AgentCard(port).type, rev |-> rev]

AllDown(ports) == [i \in DOMAIN ports |-> Down]
AllUp(ports) == [i \in DOMAIN ports |-> Server("up", ports[i], 0)]

-----------------------------------------------------------------------------
(* Agent E: performDiscovery *)

\* a list that is pushed to instead of a Map: a known key is entered again
SetAgentPush(registry, d) == Append(registry, d)

\* Map.set(agentCard.id, descriptor): a known key keeps its place
SetAgent(registry, d) ==
  IF \E i \in DOMAIN registry : registry[i].id = d.id
    THEN [i \in DOMAIN registry |-> IF registry[i].id = d.id THEN d ELSE registry[i]]
    ELSE Append(registry, d)

\* the catch branch: delete(agent.id) for every descriptor whose url has the port
RemoveByPort(registry, port) ==
  LET agentsToRemove == {registry[i].id : i \in {j \in DOMAIN registry : registry[j].url = port}}
  IN SelectSeq(registry, LAMBDA d : d.id \notin agentsToRemove)

\* one iteration of the loop over portRange: GET /status, GET /agent-card and
\* set, or the catch branch when a request fails
ProbePort(registry, port, server) ==
  CASE server.state = "up" ->
         SetAgent(registry, [id |-> server.id, type |-> server.type, url |-> port,
                             rev |-> server.rev])
    [] server.state = "notok" -> registry
    [] OTHER -> RemoveByPort(registry, port)

\* the loop of performDiscovery from the i-th port on, over servers that stay as
\* they are
RECURSIVE ProbePorts(_, _, _)
ProbePorts(registry, servers, i) ==
  IF i > Len(portRange) THEN registry
  ELSE ProbePorts(ProbePort(registry, portRange[i], servers[i]), servers, i + 1)

\* the registry after a whole pass of performDiscovery
performDiscovery(registry, servers) == ProbePorts(registry, servers, 1)

\* a find that returns the agent registered last
findAgentByTypeLast(registry, type) ==
  LET found == SelectSeq(registry, LAMBDA d : d.type = type)
  IN IF found = <<>> THEN NoAgent ELSE found[Len(found)]

\* Array.from(this.discoveredAgents.values()).find(agent => agent.type === type)
findAgentByType(registry, type) ==
  LET found == SelectSeq(registry, LAMBDA d : d.type = type)
  IN IF found = <<>> THEN NoAgent ELSE Head(found)

-----------------------------------------------------------------------------
(* Agent E: intelligentTextAnalysis and smartTextProcessing *)

RequiredType(operation) ==
  IF operation = "sentiment" THEN "sentiment-analyzer" ELSE "language-detector"

RemoteMethod(operation) ==
  IF operation = "sentiment" THEN "sentiment_analysis" ELSE "language_detection"

AgentLabel(operation) ==
  IF operation = "sentiment" THEN "Agent C (sentiment)" ELSE "Agent D (language)"

positiveWords == {"good", "great", "excellent", "amazing", "wonderful", "fantastic",
                  "love", "happy", "joy"}

negativeWords == {"bad", "terrible", "awful", "hate", "sad", "angry", "disappointed",
                  "horrible", "worst"}

\* text.toLowerCase().split(/\s+/) on the texts of the model
Words(text) ==
  CASE text = "good day" -> <<"good", "day">>
    [] OTHER -> <<text>>

\* the label sentimentFallback computes from the counts of its word lists
SentimentLabel(text) ==
  LET positive == Len(SelectSeq(Words(text), LAMBDA w : w \in positiveWords))
      negative == Len(SelectSeq(Words(text), LAMBDA w : w \in negativeWords))
  IN CASE positive > negative -> "positive"
       [] negative > positive -> "negative"
       [] OTHER -> "neutral"

\* sentimentFallback(text), languageFallback(text)
FallbackValue(operation, text) ==
  IF operation = "sentiment"
    THEN [kind |-> "sentiment", by |-> "Agent E (fallback sentiment)", text |-> text,
          num |-> 0, sentiment |-> SentimentLabel(text)]
    ELSE Value("language", "Agent E (fallback language detection)", text, 0)

\* JavaScript values of result.fallback_used
JsString(s) == [t |-> "string", v |-> s]

JsArray(a) == [t |-> "array", v |-> a]

JsBoolean(b) == [t |-> "boolean", v |-> b]

\* result.fallback_used of intelligentTextAnalysis after the fallbacks that ran:
\* 'sentiment' for the sentiment fallback, and for the language fallback
\* result.fallback_used ? [result.fallback_used, 'language'] : 'language'
RECURSIVE FallbackUsed(_)
FallbackUsed(fallbacks) ==
  IF fallbacks = <<>> THEN Undef
  ELSE LET before == FallbackUsed(SubSeq(fallbacks, 1, Len(fallbacks) - 1))
           o == fallbacks[Len(fallbacks)]
       IN IF o = "sentiment" THEN JsString("sentiment")
          ELSE IF before # Undef THEN JsArray(<<before, JsString("language")>>)
          ELSE JsString("language")

\* the sub-operations a task runs in turn
Operations(task) ==
  CASE task.method = "intelligent_text_analysis" ->
         (IF task.params.include_sentiment THEN <<"sentiment">> ELSE <<>>)
         \o (IF task.params.include_language THEN <<"language">> ELSE <<>>)
    [] task.method = "smart_text_processing" -> task.params.operations
    [] OTHER -> <<>>

\* operations_performed is kept by smartTextProcessing alone
Performed(task, acc, name) ==
  IF task.method = "smart_text_processing" THEN Append(acc.performed, name)
  ELSE acc.performed

PerformedName(operation) ==
  IF operation = "sentiment" THEN "sentiment_analysis" ELSE "language_detection"

SetValue(acc, operation, v) ==
  IF operation = "sentiment" THEN [acc EXCEPT !.sentiment = Some(v)]
  ELSE [acc EXCEPT !.language = Some(v)]

\* a delegation that is not recorded in the result
DelegatedUnrecorded(task, pr, v) ==
  [pr EXCEPT !.op = @ + 1, !.acc = SetValue(pr.acc, Operations(task)[pr.op], v)]

\* the sub-operation was delegated and the remote task completed with v
Delegated(task, pr, v) ==
  LET o == Operations(task)[pr.op]
      acc == SetValue(pr.acc, o, v)
  IN [pr EXCEPT !.op = @ + 1,
                !.acc = [acc EXCEPT !.delegation_used = TRUE,
                                    !.agents = Append(@, AgentLabel(o)),
                                    !.performed = Performed(task, acc, PerformedName(o))]]

\* the sub-operation is served by the local fallback
FellBack(task, pr) ==
  LET o == Operations(task)[pr.op]
      acc == SetValue(pr.acc, o, FallbackValue(o, task.params.text))
  IN [pr EXCEPT !.op = @ + 1,
                !.acc = [acc EXCEPT !.fallbacks = Append(@, o),
                                    !.performed = Performed(task, acc, PerformedName(o))]]

\* what the handler returns when its sub-operations are done
Result(task, acc) ==
  IF task.method = "intelligent_text_analysis"
    THEN [text_analysis |-> "Agent E (local analysis)",
          delegation_used |-> acc.delegation_used,
          agents_called |-> acc.agents,
          fallback_used |-> FallbackUsed(acc.fallbacks),
          sentiment_analysis |-> acc.sentiment,
          language_detection |-> acc.language]
    ELSE [processed_text |-> task.params.text,
          operations_performed |-> acc.performed,
          agents_used |-> acc.agents,
          fallbacks_used |-> acc.fallbacks,
          total_delegations |-> Len(acc.agents),
          total_fallbacks |-> Len(acc.fallbacks),
          sentiment |-> acc.sentiment,
          language |-> acc.language]

\* fallbacks that are not counted
RECURSIVE RunOperationsUncounted(_, _, _, _)
RunOperationsUncounted(task, pr, registry, fc) ==
  LET ops == Operations(task)
  IN IF pr.op > Len(ops)
       THEN [task |-> Completed(task, Result(task, pr.acc)),
             proc |-> [pr EXCEPT !.pc = "done"], fc |-> fc]
     ELSE IF ops[pr.op] \in {"sentiment", "language"}
             /\ findAgentByType(registry, RequiredType(ops[pr.op])) # NoAgent
       THEN [task |-> task,
             proc |-> [pr EXCEPT !.pc = "post", !.polls = 0,
                         !.agent = findAgentByType(registry, RequiredType(ops[pr.op]))],
             fc |-> fc]
     ELSE IF ops[pr.op] \in {"sentiment", "language"}
       THEN RunOperationsUncounted(task, FellBack(task, pr), registry, fc)
     ELSE RunOperationsUncounted(task, [pr EXCEPT !.op = @ + 1], registry, fc)

\* the handler runs its sub-operations from pr.op on until it awaits the POST of
\* a delegation or returns; fc is this.fallbackCount
RECURSIVE RunOperations(_, _, _, _)
RunOperations(task, pr, registry, fc) ==
  LET ops == Operations(task)
  IN IF pr.op > Len(ops)
       THEN [task |-> Completed(task, Result(task, pr.acc)),
             proc |-> [pr EXCEPT !.pc = "done"], fc |-> fc]
     ELSE IF ops[pr.op] = "analyze"
       THEN RunOperations(task,
              [pr EXCEPT !.op = @ + 1,
                         !.acc.performed = Performed(task, pr.acc, "basic_analysis")],
              registry, fc)
     ELSE IF ops[pr.op] \in {"sentiment", "language"}
       THEN LET agent == findAgentByType(registry, RequiredType(ops[pr.op]))
            IN IF agent # NoAgent
                 THEN [task |-> task,
                       proc |-> [pr EXCEPT !.pc = "post", !.agent = agent, !.polls = 0],
                       fc |-> fc]
                 ELSE RunOperations(task, FellBack(task, pr), registry, fc + 1)
     ELSE RunOperations(task, [pr EXCEPT !.op = @ + 1], registry, fc)

\* forceDiscovery() after its pass
ForceResult(registry) ==
  [message |-> "Discovery completed", discovered_agents |-> Len(registry)]

\* getOrchestratorStatus()
StatusResult(registry, dc, fc, last) ==
  [discovered_agents |-> registry, total_delegations |-> dc, total_fallbacks |-> fc,
   last_discovery |-> last]

\* the handler after the discovery pass it awaited
AfterDiscovery(task, pr, registry, fc) ==
  IF task.method = "force_discovery"
    THEN [task |-> Completed(task, ForceResult(registry)),
          proc |-> [pr EXCEPT !.pc = "done"], fc |-> fc]
    ELSE RunOperations(task, [pr EXCEPT !.op = 1], registry, fc)

\* a handler that selects its agents without the pass over an empty registry
StartTaskNoPass(task, registry, dc, fc, last) ==
  CASE task.method \in {"intelligent_text_analysis", "smart_text_processing"} ->
         IF task.params.text = ""
           THEN [task |-> Failed(task, "Text parameter is required"),
                 proc |-> NewProc("done"), fc |-> fc]
         ELSE RunOperations(task, [NewProc("run") EXCEPT !.op = 1], registry, fc)
    [] task.method = "orchestrator_status" ->
         [task |-> Completed(task, StatusResult(registry, dc, fc, last)),
          proc |-> NewProc("done"), fc |-> fc]
    [] task.method = "force_discovery" ->
         [task |-> task, proc |-> [NewProc("discover") EXCEPT !.port = 1], fc |-> fc]
    [] OTHER ->
         [task |-> Failed(task, "Unknown method"), proc |-> NewProc("done"), fc |-> fc]

\* processTask from its call in /rpc to its first await
StartTask(task, registry, dc, fc, last) ==
  CASE task.method \in {"intelligent_text_analysis", "smart_text_processing"} ->
         IF task.params.text = ""
           THEN [task |-> Failed(task, "Text parameter is required"),
                 proc |-> NewProc("done"), fc |-> fc]
         ELSE IF Len(registry) = 0
           THEN [task |-> task, proc |-> [NewProc("discover") EXCEPT !.port = 1], fc |-> fc]
         ELSE RunOperations(task, [NewProc("run") EXCEPT !.op = 1], registry, fc)
    [] task.method = "orchestrator_status" ->
         [task |-> Completed(task, StatusResult(registry, dc, fc, last)),
          proc |-> NewProc("done"), fc |-> fc]
    [] task.method = "force_discovery" ->
         [task |-> task, proc |-> [NewProc("discover") EXCEPT !.port = 1], fc |-> fc]
    [] OTHER ->
         [task |-> Failed(task, "Unknown method"), proc |-> NewProc("done"), fc |-> fc]

-----------------------------------------------------------------------------
(* Agent E: the actions *)

\* POST /rpc of Agent E, while fewer than max tasks have been accepted
OrchestratorRpcUpTo(req, max) ==
  /\ self = "agent-e"
  /\ LET code == RpcCheck(self, req)
         id == Len(tasks) + 1
         st == StartTask(NewTask(id, req, "processing"), discoveredAgents,
                         delegationCount, fallbackCount, lastDiscovery)
     IN IF code # 0
          THEN /\ http' = RpcError(400, code)
               /\ UNCHANGED <<tasks, proc, accepted, fallbackCount>>
          ELSE /\ Len(tasks) < max
               /\ tasks' = Append(tasks, st.task)
               /\ proc' = Append(proc, st.proc)
               /\ fallbackCount' = st.fc
               /\ http' = RpcAccepted(id)
               /\ accepted' = accepted \cup {http'.task_id}
  /\ UNCHANGED <<self, supervisorVars, discoveredAgents, delegationCount, lastDiscovery, envVars>>

\* POST /rpc of Agent E
OrchestratorRpc(req) == OrchestratorRpcUpTo(req, MaxRouted)

\* a handler that keeps the count of its own fallbacks and writes it to the
\* counter of the agent
ResumeOwnCount(t, pr, registry, fc) ==
  LET st == RunOperations(tasks[t], pr, registry, Len(pr.acc.fallbacks))
  IN /\ tasks' = [tasks EXCEPT ![t] = st.task]
     /\ proc' = [proc EXCEPT ![t] = st.proc]
     /\ fallbackCount' = st.fc

\* the handler of task t goes on to its next await with local state pr
Resume(t, pr, registry, fc) ==
  LET st == RunOperations(tasks[t], pr, registry, fc)
  IN /\ tasks' = [tasks EXCEPT ![t] = st.task]
     /\ proc' = [proc EXCEPT ![t] = st.proc]
     /\ fallbackCount' = st.fc

\* the pass awaited by task t (registry empty, or force_discovery) probes a port
TaskProbe(t) ==
  /\ self = "agent-e"
  /\ proc[t].pc = "discover"
  /\ LET i == proc[t].port
         registry == ProbePort(discoveredAgents, portRange[i], env[i])
         st == AfterDiscovery(tasks[t], proc[t], registry, fallbackCount)
     IN /\ discoveredAgents' = registry
        /\ IF i < Len(portRange)
             THEN /\ proc' = [proc EXCEPT ![t].port = i + 1]
                  /\ UNCHANGED <<tasks, fallbackCount, lastDiscovery>>
             ELSE /\ lastDiscovery' = "timestamp"
                  /\ tasks' = [tasks EXCEPT ![t] = st.task]
                  /\ proc' = [proc EXCEPT ![t] = st.proc]
                  /\ fallbackCount' = st.fc
  /\ UNCHANGED <<self, supervisorVars, http, accepted, delegationCount, envVars>>

\* the server a descriptor points to
ServerAt(url) == env[CHOOSE i \in DOMAIN Ports : Ports[i] = url]

\* what the remote agent may answer to the POST of delegateToAgent: an error
\* (or nothing), an accepted task, or a result without task id
PostAnswers(server) ==
  IF server.state \in {"down", "silent"} THEN {"error"} ELSE {"error", "task", "result"}

\* what it may answer to GET /task/:taskId
PollAnswers(server) ==
  IF server.state \in {"down", "silent"} THEN {"error"}
  ELSE {"processing", "completed", "failed", "error"}

RemoteValue(task, pr) ==
  Value(RemoteMethod(Operations(task)[pr.op]), pr.agent.id, task.params.text, 0)

\* the answers to a request that is sent without a timeout: a server that never
\* replies leaves the request pending
Untimed(answers, server) == IF server.state = "silent" THEN {} ELSE answers

\* a POST whose failure is not caught by the handler
DelegatePostUncaught(t, answer) ==
  /\ self = "agent-e"
  /\ proc[t].pc = "post"
  /\ answer \in PostAnswers(ServerAt(proc[t].agent.url))
  /\ CASE answer = "task" ->
            /\ proc' = [proc EXCEPT ![t].pc = "poll", ![t].polls = 1,
                                    ![t].elapsed = 0, ![t].over = 0]
            /\ UNCHANGED <<tasks, fallbackCount, delegationCount>>
       [] answer = "result" ->
            /\ delegationCount' = delegationCount + 1
            /\ Resume(t, Delegated(tasks[t], proc[t], RemoteValue(tasks[t], proc[t])),
                      discoveredAgents, fallbackCount)
       [] OTHER ->
            /\ tasks' = [tasks EXCEPT ![t] = Failed(@, "Request failed")]
            /\ proc' = [proc EXCEPT ![t].pc = "done"]
            /\ UNCHANGED <<fallbackCount, delegationCount>>
  /\ UNCHANGED <<self, supervisorVars, http, accepted, discoveredAgents, lastDiscovery, envVars>>

\* delegateToAgent after its POST
DelegatePost(t, answer) ==
  /\ self = "agent-e"
  /\ proc[t].pc = "post"
  /\ answer \in PostAnswers(ServerAt(proc[t].agent.url))
  /\ CASE answer = "task" ->
            /\ proc' = [proc EXCEPT ![t].pc = "poll", ![t].polls = 1,
                                    ![t].elapsed = 0, ![t].over = 0]
            /\ UNCHANGED <<tasks, fallbackCount, delegationCount>>
       [] answer = "result" ->
            /\ delegationCount' = delegationCount + 1
            /\ Resume(t, Delegated(tasks[t], proc[t], RemoteValue(tasks[t], proc[t])),
                      discoveredAgents, fallbackCount)
       [] OTHER ->
            /\ Resume(t, FellBack(tasks[t], proc[t]), discoveredAgents, fallbackCount + 1)
            /\ UNCHANGED delegationCount
  /\ UNCHANGED <<self, supervisorVars, http, accepted, discoveredAgents, lastDiscovery, envVars>>

\* Times are counted in units of 500 ms.
\* waitForTaskCompletion(agentUrl, taskId, maxWaitTime = 10000)
maxWaitTime == 20
\* axios.get(`${agentUrl}/task/${taskId}`, { timeout: 2000 })
pollTimeout == 4
\* setTimeout(resolve, 500)
pollSleep == 1

\* waitForTaskCompletion has returned or thrown `now' after its startTime; the
\* handler keeps by how much that is beyond maxWaitTime
EndWait(pr, now) ==
  [pr EXCEPT !.elapsed = 0, !.over = IF now > maxWaitTime THEN now - maxWaitTime ELSE 0]

\* a wait whose loop tests twice the ceiling
DelegatePollLateCeiling(t, answer, get) ==
  /\ self = "agent-e"
  /\ proc[t].pc = "poll"
  /\ answer \in PollAnswers(ServerAt(proc[t].agent.url))
  /\ get \in 0..pollTimeout
  /\ LET now == proc[t].elapsed + get
     IN CASE answer = "completed" ->
               /\ delegationCount' = delegationCount + 1
               /\ Resume(t, Delegated(tasks[t], EndWait(proc[t], now),
                                      RemoteValue(tasks[t], proc[t])),
                         discoveredAgents, fallbackCount)
          [] answer = "processing" /\ now + pollSleep < 2 * maxWaitTime ->
               /\ proc' = [proc EXCEPT ![t].slept = TRUE, ![t].elapsed = now + pollSleep]
               /\ UNCHANGED <<tasks, fallbackCount, delegationCount>>
          [] answer = "processing" ->
               /\ Resume(t, FellBack(tasks[t], EndWait(proc[t], now + pollSleep)),
                         discoveredAgents, fallbackCount + 1)
               /\ UNCHANGED delegationCount
          [] OTHER ->
               /\ Resume(t, FellBack(tasks[t], EndWait(proc[t], now)),
                         discoveredAgents, fallbackCount + 1)
               /\ UNCHANGED delegationCount
  /\ UNCHANGED <<self, supervisorVars, http, accepted, discoveredAgents, lastDiscovery, envVars>>

\* a wait whose loop has no ceiling (its clock is kept modulo maxWaitTime)
DelegatePollNoCeiling(t, answer, get) ==
  /\ self = "agent-e"
  /\ proc[t].pc = "poll"
  /\ answer \in PollAnswers(ServerAt(proc[t].agent.url))
  /\ get \in 0..pollTimeout
  /\ LET now == proc[t].elapsed + get
     IN CASE answer = "completed" ->
               /\ delegationCount' = delegationCount + 1
               /\ Resume(t, Delegated(tasks[t], EndWait(proc[t], now),
                                      RemoteValue(tasks[t], proc[t])),
                         discoveredAgents, fallbackCount)
          [] answer = "processing" ->
               /\ proc' = [proc EXCEPT ![t].slept = TRUE,
                                       ![t].elapsed = (now + pollSleep) % maxWaitTime]
               /\ UNCHANGED <<tasks, fallbackCount, delegationCount>>
          [] OTHER ->
               /\ Resume(t, FellBack(tasks[t], EndWait(proc[t], now)),
                         discoveredAgents, fallbackCount + 1)
               /\ UNCHANGED delegationCount
  /\ UNCHANGED <<self, supervisorVars, http, accepted, discoveredAgents, lastDiscovery, envVars>>

\* waitForTaskCompletion after a GET /task/:taskId that took `get': the loop
\* began at elapsed < maxWaitTime; a task that is still processing is polled
\* again after the sleep while the ceiling has not elapsed; a failed task, a
\* failed request and the elapsed ceiling all end in the `timeout' Error
DelegatePoll(t, answer, get) ==
  /\ self = "agent-e"
  /\ proc[t].pc = "poll"
  /\ answer \in PollAnswers(ServerAt(proc[t].agent.url))
  /\ get \in 0..pollTimeout
  /\ LET now == proc[t].elapsed + get
     IN CASE answer = "completed" ->
               /\ delegationCount' = delegationCount + 1
               /\ Resume(t, Delegated(tasks[t], EndWait(proc[t], now),
                                      RemoteValue(tasks[t], proc[t])),
                         discoveredAgents, fallbackCount)
          [] answer = "processing" /\ now + pollSleep < maxWaitTime ->
               /\ proc' = [proc EXCEPT ![t].slept = TRUE, ![t].elapsed = now + pollSleep]
               /\ UNCHANGED <<tasks, fallbackCount, delegationCount>>
          [] answer = "processing" ->
               /\ Resume(t, FellBack(tasks[t], EndWait(proc[t], now + pollSleep)),
                         discoveredAgents, fallbackCount + 1)
               /\ UNCHANGED delegationCount
          [] OTHER ->
               /\ Resume(t, FellBack(tasks[t], EndWait(proc[t], now)),
                         discoveredAgents, fallbackCount + 1)
               /\ UNCHANGED delegationCount
  /\ UNCHANGED <<self, supervisorVars, http, accepted, discoveredAgents, lastDiscovery, envVars>>

\* setInterval(() => this.performDiscovery(), 30000): a pass probes four ports
\* with a timeout of 2 s per request, so the pass of the tick before is over
TimerTick ==
  /\ self = "agent-e"
  /\ timer.port = 0
  /\ timer' = [port |-> 1, stable |-> TRUE]
  /\ UNCHANGED <<self, supervisorVars, taskVars, registryVars, env, events>>

\* the pass of the timer probes a port
TimerProbe ==
  /\ self = "agent-e"
  /\ timer.port > 0
  /\ discoveredAgents' =
       ProbePort(discoveredAgents, portRange[timer.port], env[timer.port])
  /\ IF timer.port < Len(portRange)
       THEN /\ timer' = [timer EXCEPT !.port = @ + 1]
            /\ UNCHANGED lastDiscovery
       ELSE /\ timer' = [timer EXCEPT !.port = 0]
            /\ lastDiscovery' = "timestamp"
  /\ UNCHANGED <<self, supervisorVars, taskVars, delegationCount, fallbackCount, env, events>>

\* a server starts, stops or turns unhealthy; the passes in flight have then
\* seen the servers change
EnvChange(i, state) ==
  /\ self \in {"agent-e", "client", "orchestrator"}
  /\ events < MaxEvents
  /\ env[i].state # state
  /\ env' = [env EXCEPT ![i] = IF state = "down" THEN Down
                                ELSE Server(state, Ports[i], events + 1)]
  /\ events' = events + 1
  /\ timer' = [timer EXCEPT !.stable = FALSE]
  /\ proc' = [t \in DOMAIN proc |-> [proc[t] EXCEPT !.stable = FALSE]]
  /\ UNCHANGED <<self, supervisorVars, tasks, http, accepted, registryVars>>

-----------------------------------------------------------------------------
(* The DynamicDiscoveryClient.  It is a script: it awaits each of its calls,  *)
(* so a call starts when the one before has returned.  tasks holds its calls   *)
(* of executeTaskAutomatically: a call that returned is completed with the    *)
(* value as result, a call that threw is failed with the message as error.    *)

\* this.discoveredAgents.set(port, descriptor): a known port keeps its place
SetPort(registry, d) ==
  IF \E i \in DOMAIN registry : registry[i].url = d.url
    THEN [i \in DOMAIN registry |-> IF registry[i].url = d.url THEN d ELSE registry[i]]
    ELSE Append(registry, d)

\* one iteration of the loop of discoverAgents; its catch block is empty
ClientProbePort(registry, port, server) ==
  IF server.state = "up"
    THEN SetPort(registry, [id |-> server.id, type |-> server.type, url |-> port,
                            rev |-> server.rev])
    ELSE registry

getAgentsByType(registry, type) == SelectSeq(registry, LAMBDA d : d.type = type)

\* the keys of the object literal methodToAgentType
MethodKeys ==
  {"text_analysis", "text_transform", "text_validation",
   "basic_math", "advanced_math", "statistical_analysis", "equation_solving",
   "sentiment_analysis", "emotion_detection", "polarity_analysis", "batch_sentiment",
   "language_detection", "multilingual_analysis", "language_statistics",
   "batch_language_detection"}

\* names every object inherits from Object.prototype
ObjectPrototypeKeys == {"constructor", "toString", "valueOf", "hasOwnProperty"}

\* methodToAgentType[method]: the value of the key, "function" for the function
\* a name of Object.prototype evaluates to, "" (undefined) otherwise
methodToAgentType(method) ==
  CASE method \in ObjectPrototypeKeys -> "function"
    [] method \in {"text_analysis", "text_transform", "text_validation"} -> "text-processor"
    [] method \in {"basic_math", "advanced_math", "statistical_analysis",
                   "equation_solving"} -> "math-calculator"
    [] method \in {"sentiment_analysis", "emotion_detection", "polarity_analysis",
                   "batch_sentiment"} -> "sentiment-analyzer"
    [] method \in {"language_detection", "multilingual_analysis", "language_statistics",
                   "batch_language_detection"} -> "language-detector"
    [] OTHER -> ""

ClientRequests ==
  {[jsonrpc |-> "2.0", method |-> m, params |-> TextOp("good day", ""), id |-> "req-1"] :
     m \in {"text_analysis", "sentiment_analysis", "language_detection", "unknown_method",
            "constructor"}}

ClientIdle == timer.port = 0 /\ \A k \in DOMAIN proc : proc[k].pc = "done"

\* discoverAgents() is called
DiscoverAgents ==
  /\ self = "client"
  /\ ClientIdle
  /\ timer' = [port |-> 1, stable |-> TRUE]
  /\ UNCHANGED <<self, supervisorVars, taskVars, registryVars, env, events>>

\* discoverAgents() probes a port
ClientProbe ==
  /\ self = "client"
  /\ timer.port > 0
  /\ discoveredAgents' =
       ClientProbePort(discoveredAgents, discoveryPorts[timer.port], env[timer.port])
  /\ timer' = [timer EXCEPT !.port = IF @ < Len(discoveryPorts) THEN @ + 1 ELSE 0]
  /\ UNCHANGED <<self, supervisorVars, taskVars, delegationCount, fallbackCount, lastDiscovery, env, events>>

\* executeTaskAutomatically(method, params) up to the POST of sendTaskToAgent
ExecuteTaskAutomatically(req) ==
  /\ self = "client"
  /\ ClientIdle
  /\ Len(tasks) < MaxRouted
  /\ LET call == NewTask(Len(tasks) + 1, req, "processing")
         requiredType == methodToAgentType(req.method)
         suitableAgents == getAgentsByType(discoveredAgents, requiredType)
     IN IF requiredType = ""
          THEN /\ tasks' = Append(tasks, Failed(call, "Unknown method"))
               /\ proc' = Append(proc, NewProc("done"))
        ELSE IF suitableAgents = <<>>
          THEN /\ tasks' = Append(tasks, Failed(call, "No agents of type available"))
               /\ proc' = Append(proc, NewProc("done"))
        ELSE /\ tasks' = Append(tasks, call)
             /\ proc' = Append(proc, [NewProc("post") EXCEPT !.agent = Head(suitableAgents)])
  /\ UNCHANGED <<self, supervisorVars, http, accepted, registryVars, envVars>>

\* sendTaskToAgent after its POST
ClientPost(k, answer) ==
  /\ self = "client"
  /\ proc[k].pc = "post"
  /\ answer \in Untimed(PostAnswers(ServerAt(proc[k].agent.url)) \ {"result"},
                        ServerAt(proc[k].agent.url))
  /\ IF answer = "task"
       THEN /\ proc' = [proc EXCEPT ![k].pc = "poll", ![k].polls = 1]
            /\ UNCHANGED tasks
       ELSE /\ tasks' = [tasks EXCEPT ![k] = Failed(@, "Request failed")]
            /\ proc' = [proc EXCEPT ![k].pc = "done"]
  /\ UNCHANGED <<self, supervisorVars, http, accepted, registryVars, envVars>>

\* waitForTaskCompletion of the client after a GET /task/:taskId
ClientPoll(k, answer, expired) ==
  /\ self = "client"
  /\ proc[k].pc = "poll"
  /\ answer \in Untimed(PollAnswers(ServerAt(proc[k].agent.url)), ServerAt(proc[k].agent.url))
  /\ expired \in Expired(proc[k].polls)
  /\ CASE answer = "completed" ->
            /\ tasks' = [tasks EXCEPT ![k] =
                 Completed(@, Value(@.method, proc[k].agent.id, @.params.text, 0))]
            /\ proc' = [proc EXCEPT ![k].pc = "done"]
       [] answer = "failed" ->
            /\ tasks' = [tasks EXCEPT ![k] = Failed(@, "Task failed")]
            /\ proc' = [proc EXCEPT ![k].pc = "done"]
       [] answer = "error" ->
            /\ tasks' = [tasks EXCEPT ![k] = Failed(@, "Request failed")]
            /\ proc' = [proc EXCEPT ![k].pc = "done"]
       [] OTHER ->
            IF expired
              THEN /\ tasks' = [tasks EXCEPT ![k] =
                        Failed(@, "Task timeout - exceeded maximum wait time")]
                   /\ proc' = [proc EXCEPT ![k].pc = "done"]
              ELSE /\ proc' = [proc EXCEPT ![k].polls = @ + 1, ![k].slept = TRUE]
                   /\ UNCHANGED tasks
  /\ UNCHANGED <<self, supervisorVars, http, accepted, registryVars, envVars>>

-----------------------------------------------------------------------------

Init ==
  /\ self \in Agents
  /\ tasks = <<>>
  /\ proc = <<>>
  /\ http = NoResponse
  /\ accepted = {}
  /\ discoveredAgents = <<>>
  /\ delegationCount = 0
  /\ fallbackCount = 0
  /\ lastDiscovery = "null"
  /\ events = 0
  /\ agents = <<>>
  /\ spawned = 0
  /\ IF self = "agent-e"
       THEN /\ timer = [port |-> 1, stable |-> TRUE]
            /\ env \in {AllDown(portRange), AllUp(portRange)}
       ELSE /\ timer = [port |-> 0, stable |-> TRUE]
            /\ env = AllDown(portRange)

\* the leaf agents
LeafNext ==
  \/ \E req \in Requests(self) : Rpc(req)
  \/ \E t \in DOMAIN tasks : ProcessTask(t)
  \/ \E t \in DOMAIN tasks : ChainTimer(t)
  \/ \E t \in DOMAIN tasks, answer \in {"accepted", "error"} : ChainPost(t, answer)
  \/ \E t \in DOMAIN tasks, expired \in BOOLEAN,
        answer \in {"processing", "completed", "failed", "not_found", "error"} :
          ChainPoll(t, answer, expired)

\* Agent E
OrchestratorNext ==
  \/ \E req \in Requests(self) : OrchestratorRpc(req)
  \/ \E t \in DOMAIN tasks : TaskProbe(t)
  \/ \E t \in DOMAIN tasks, answer \in {"error", "task", "result"} : DelegatePost(t, answer)
  \/ \E t \in DOMAIN tasks, answer \in {"processing", "completed", "failed", "error"} :
       DelegatePoll(t, answer, pollTimeout)
  \/ TimerTick
  \/ TimerProbe

StatusRead == \E taskId \in 1..(Len(tasks) + 1) : GetTask(taskId)

ServersNext ==
  \E i \in DOMAIN env, state \in {"down", "up", "notok"} : EnvChange(i, state)

\* every agent, while the servers it probes stay as they are
Next == LeafNext \/ OrchestratorNext \/ StatusRead

Spec == Init /\ [][Next]_vars

\* Agent E, while the servers it probes start, stop and turn unhealthy
InitServers == Init /\ self = "agent-e"

NextServers == OrchestratorNext \/ StatusRead \/ ServersNext

SpecServers == InitServers /\ [][NextServers]_vars

\* Agent E, while the agents it polls answer at once or as late as the request
\* timeout allows
\* Agent E between two ticks of its timer, after a pass that found every agent
\* or, the agents having started later, none
InitWait ==
  /\ self = "agent-e"
  /\ tasks = <<>>
  /\ proc = <<>>
  /\ http = NoResponse
  /\ accepted = {}
  /\ env = AllUp(portRange)
  /\ discoveredAgents \in {<<>>, performDiscovery(<<>>, env)}
  /\ delegationCount = 0
  /\ fallbackCount = 0
  /\ lastDiscovery = "timestamp"
  /\ events = 0
  /\ agents = <<>>
  /\ spawned = 0
  /\ timer = [port |-> 0, stable |-> TRUE]

\* the requests that Agent E routes to other agents
RoutedRequests ==
  {req \in Requests("agent-e") :
     req.method \in {"intelligent_text_analysis", "smart_text_processing"}}

NextWait ==
  \/ \E req \in RoutedRequests : OrchestratorRpc(req)
  \/ \E t \in DOMAIN tasks : TaskProbe(t)
  \/ \E t \in DOMAIN tasks, answer \in {"error", "task", "result"} : DelegatePost(t, answer)
  \/ \E t \in DOMAIN tasks, answer \in {"processing", "completed", "failed", "error"},
        get \in {0, pollTimeout} : DelegatePoll(t, answer, get)
  \/ StatusRead

SpecWait == InitWait /\ [][NextWait]_vars

\* the next step of the handler of task t, among agents that answer as late as
\* the request timeout allows
TaskStep(t) ==
  /\ t \in DOMAIN proc
  /\ \/ TaskProbe(t)
     \/ \E answer \in {"error", "task", "result"} : DelegatePost(t, answer)
     \/ \E answer \in {"processing", "completed", "failed", "error"} :
          DelegatePoll(t, answer, pollTimeout)

NextLive ==
  \/ \E req \in RoutedRequests : OrchestratorRpc(req)
  \/ \E t \in DOMAIN tasks : TaskStep(t)
  \/ StatusRead

\* every request a handler awaits carries a timeout, so the handler goes on
SpecLive ==
  InitWait /\ [][NextLive]_vars /\ \A t \in 1..MaxRouted : WF_vars(TaskStep(t))

\* the tasks Agent E may have in flight at a time in SpecCount
MaxConcurrent == 2

\* the routed requests with a text, one of each method
CountRequests ==
  {req \in RoutedRequests :
     /\ req.params.text # ""
     /\ req.method = "intelligent_text_analysis" =>
          req.params.include_sentiment /\ req.params.include_language
     /\ req.method = "smart_text_processing" => Len(req.params.operations) > 1}

NextCount ==
  \/ \E req \in CountRequests : OrchestratorRpcUpTo(req, MaxConcurrent)
  \/ \E t \in DOMAIN tasks : TaskProbe(t)
  \/ \E t \in DOMAIN tasks, answer \in {"error", "task", "result"} : DelegatePost(t, answer)
  \/ \E t \in DOMAIN tasks, answer \in {"processing", "completed", "failed", "error"} :
        DelegatePoll(t, answer, pollTimeout)

\* Agent E with several routed tasks in flight, their awaits interleaved
SpecCount == InitWait /\ [][NextCount]_vars

\* the DynamicDiscoveryClient, while the servers start, stop and turn unhealthy
InitClient ==
  /\ self = "client"
  /\ tasks = <<>>
  /\ proc = <<>>
  /\ http = NoResponse
  /\ accepted = {}
  /\ discoveredAgents = <<>>
  /\ delegationCount = 0
  /\ fallbackCount = 0
  /\ lastDiscovery = "null"
  /\ events = 0
  /\ agents = <<>>
  /\ spawned = 0
  /\ timer = [port |-> 0, stable |-> TRUE]
  /\ env \in {AllDown(discoveryPorts), AllUp(discoveryPorts)}

NextClient ==
  \/ DiscoverAgents
  \/ ClientProbe
  \/ \E req \in ClientRequests : ExecuteTaskAutomatically(req)
  \/ \E k \in DOMAIN tasks, answer \in {"error", "task"} : ClientPost(k, answer)
  \/ \E k \in DOMAIN tasks, expired \in BOOLEAN,
        answer \in {"processing", "completed", "failed", "error"} :
          ClientPoll(k, answer, expired)
  \/ ServersNext

SpecClient == InitClient /\ [][NextClient]_vars

\* Agent E and the client, while several agents of one type are up.  An agent
\* listens on the port its constructor is given, so a second Agent C may run on
\* port 4001, and an agent of another origin may publish the type
\* sentiment-analyzer under an id of its own.
AnalyzerCards ==
  {[id |-> "sentiment-analyzer-agent-c", type |-> "sentiment-analyzer"],
   [id |-> "another-sentiment-analyzer", type |-> "sentiment-analyzer"]}

ServerWith(card, rev) == [state |-> "up", id |-> card.id, type |-> card.type, rev |-> rev]

\* the servers that may listen on a port
ServersOn(port) ==
  CASE port = 4001 ->
         {Down, Server("up", port, 0)} \cup {ServerWith(card, 0) : card \in AnalyzerCards}
    [] port = 4003 -> {Down, Server("up", port, 0)}
    [] OTHER -> {Server("up", port, 0)}

SelectServers(ports) ==
  {servers \in [DOMAIN ports -> UNION {ServersOn(ports[i]) : i \in DOMAIN ports}] :
     \A i \in DOMAIN ports : servers[i] \in ServersOn(ports[i])}

\* a pass has run over these servers, or it ran when no agent was up, or when
\* Agent C on port 4003 was the only agent up
InitSelect ==
  /\ self \in {"agent-e", "client"}
  /\ tasks = <<>>
  /\ proc = <<>>
  /\ http = NoResponse
  /\ accepted = {}
  /\ delegationCount = 0
  /\ fallbackCount = 0
  /\ events = 0
  /\ agents = <<>>
  /\ spawned = 0
  /\ timer = [port |-> 0, stable |-> TRUE]
  /\ env \in SelectServers(Ports)
  /\ IF self = "agent-e"
       THEN /\ discoveredAgents \in
                 {<<>>, performDiscovery(<<>>, env),
                  ProbePort(<<>>, 4003, Server("up", 4003, 0))}
            /\ lastDiscovery = "timestamp"
       ELSE /\ discoveredAgents \in
                 {<<>>, ClientProbePort(<<>>, 4003, Server("up", 4003, 0))}
            /\ lastDiscovery = "null"

NextSelect ==
  \/ TimerTick
  \/ TimerProbe
  \/ \E req \in RoutedRequests : OrchestratorRpc(req)
  \/ \E t \in DOMAIN tasks : TaskProbe(t)
  \/ \E t \in DOMAIN tasks, answer \in {"error", "task", "result"} : DelegatePost(t, answer)
  \/ \E t \in DOMAIN tasks, answer \in {"processing", "completed", "failed", "error"} :
       DelegatePoll(t, answer, pollTimeout)
  \/ DiscoverAgents
  \/ ClientProbe
  \/ \E req \in ClientRequests : ExecuteTaskAutomatically(req)
  \/ \E k \in DOMAIN tasks, answer \in {"error", "task"} : ClientPost(k, answer)
  \/ \E k \in DOMAIN tasks, expired \in BOOLEAN,
        answer \in {"processing", "completed", "failed", "error"} :
          ClientPoll(k, answer, expired)

SpecSelect == InitSelect /\ [][NextSelect]_vars

\* the cards an agent started on a port of another agent may publish: those of
\* the analyzers, and Agent D's, which has no id
ReplacementCards == AnalyzerCards \cup {AgentCard(4004)}

\* the agent on a port is stopped and another agent is started on the port
\* before the next probe of it
Replaced(i, card) ==
  /\ self = "agent-e"
  /\ events < MaxEvents
  /\ env[i].state = "up"
  /\ card.id # env[i].id
  /\ env' = [env EXCEPT ![i] = ServerWith(card, events + 1)]
  /\ events' = events + 1
  /\ timer' = [timer EXCEPT !.stable = FALSE]
  /\ proc' = [t \in DOMAIN proc |-> [proc[t] EXCEPT !.stable = FALSE]]
  /\ UNCHANGED <<self, supervisorVars, tasks, http, accepted, registryVars>>

NextReplace ==
  \/ TimerTick
  \/ TimerProbe
  \/ ServersNext
  \/ \E i \in DOMAIN env, card \in ReplacementCards : Replaced(i, card)

\* the periodic discovery of Agent E, while agents are stopped and others are
\* started on their ports
SpecReplace == InitServers /\ [][NextReplace]_vars

-----------------------------------------------------------------------------
(* The AdvancedSystemOrchestrator.  Its management API starts, stops and     *)
(* restarts the agents of agentConfigs as child processes and keeps a record *)
(* per agent in this.agents.  A handler that throws before its first await   *)
(* is answered in the step of the request.                                   *)

\* this.agentConfigs
agentConfigs ==
  <<[id |-> "agent-a", port |-> 4001, type |-> "text-processor",
     capabilities |-> <<"text_analysis", "text_transform", "text_validation">>],
    [id |-> "agent-b", port |-> 4002, type |-> "math-calculator",
     capabilities |-> <<"basic_math", "advanced_math", "statistical_analysis",
                        "equation_solving">>],
    [id |-> "agent-c", port |-> 4003, type |-> "sentiment-analyzer",
     capabilities |-> <<"sentiment_analysis", "emotion_detection", "polarity_analysis",
                        "batch_sentiment">>],
    [id |-> "agent-d", port |-> 4004, type |-> "language-detector",
     capabilities |-> <<"language_detection", "multilingual_analysis",
                        "language_statistics", "batch_language_detection">>]>>

ConfigIds == {agentConfigs[i].id : i \in DOMAIN agentConfigs}

\* the ids a caller of the API may name: the configured ones and another
AgentIds == ConfigIds \cup {"agent-x"}

Tracked(map, agentId) == \E k \in DOMAIN map : map[k].id = agentId

\* this.agents.get(agentId)
Record(map, agentId) == map[CHOOSE k \in DOMAIN map : map[k].id = agentId]

\* the message of the ReferenceError of a constant read before its declaration
\* has initialised it
TemporalDeadZone == "Cannot access 'process' before initialization"

\* startAgent(agentId) up to its first await.  The statement
\*   const process = spawn('node', [scriptPath], {..., env: {...process.env, ...}})
\* evaluates process.env for the argument of spawn while the constant `process'
\* it declares is not yet initialised, so it throws a ReferenceError before
\* spawn is called and before this.agents.set
startAgent(map, agentId) ==
  IF agentId \notin ConfigIds THEN Throw("Agent configuration not found")
  ELSE IF Tracked(map, agentId) /\ Record(map, agentId).status = "running"
    THEN Throw("Agent is already running")
  ELSE Throw(TemporalDeadZone)

\* stopAgent(agentId): it throws for an agent that is not tracked or has no
\* process; for a tracked process it signals, waits and returns stopped
stopAgent(map, agentId) ==
  IF ~Tracked(map, agentId) \/ ~Record(map, agentId).process
    THEN Throw("Agent not found or not running")
  ELSE Return([kind |-> "stopped"])

\* the records after stopAgent has returned for a tracked process
Stopped(map, agentId) ==
  [k \in DOMAIN map |-> IF map[k].id = agentId THEN [map[k] EXCEPT !.status = "stopped"]
                         ELSE map[k]]

\* a response of the management API; results is the list of a bulk call or of
\* the discovery proxy
Api(op, agentId, code, error, results) ==
  [op |-> op, id |-> agentId, code |-> code, error |-> error, results |-> results]

NoApi == Api("", "", 0, "", <<>>)

\* res.json({success: true, ...}) or res.status(500).json({success: false, error})
Answer(op, agentId, out) ==
  IF out.ok THEN Api(op, agentId, 200, "", <<>>) ELSE Api(op, agentId, 500, out.msg, <<>>)

\* POST /api/agents/:agentId/start
StartAgentApi(agentId) ==
  /\ self = "orchestrator"
  /\ LET out == startAgent(agents, agentId)
     IN /\ http' = Answer("start", agentId, out)
        /\ IF out.ok
             THEN /\ agents' = Append(SelectSeq(agents, LAMBDA a : a.id # agentId),
                                      [id |-> agentId, status |-> "starting",
                                       process |-> TRUE, errorCount |-> 0])
                  /\ spawned' = spawned + 1
             ELSE UNCHANGED <<agents, spawned>>
  /\ UNCHANGED <<self, tasks, proc, accepted, registryVars, envVars>>

\* POST /api/agents/:agentId/stop
StopAgentApi(agentId) ==
  /\ self = "orchestrator"
  /\ LET out == stopAgent(agents, agentId)
     IN /\ http' = Answer("stop", agentId, out)
        /\ agents' = IF out.ok THEN Stopped(agents, agentId) ELSE agents
  /\ UNCHANGED <<self, spawned, tasks, proc, accepted, registryVars, envVars>>

\* a restart that answers success whatever stopAgent and startAgent do
RestartAgentApiSilent(agentId) ==
  /\ self = "orchestrator"
  /\ http' = Api("restart", agentId, 200, "", <<>>)
  /\ UNCHANGED <<self, supervisorVars, tasks, proc, accepted, registryVars, envVars>>

\* POST /api/agents/:agentId/restart: stopAgent, two seconds, startAgent; the
\* first of them that throws ends the handler with the 500 response
RestartAgentApi(agentId) ==
  /\ self = "orchestrator"
  /\ LET stop == stopAgent(agents, agentId)
         start == startAgent(Stopped(agents, agentId), agentId)
     IN /\ http' = IF stop.ok THEN Answer("restart", agentId, start)
                   ELSE Answer("restart", agentId, stop)
        /\ agents' = IF stop.ok THEN Stopped(agents, agentId) ELSE agents
  /\ UNCHANGED <<self, spawned, tasks, proc, accepted, registryVars, envVars>>

\* a bulk start that does not catch: the first failure ends the loop
RECURSIVE startAllAgentsFailFast(_, _)
startAllAgentsFailFast(map, i) ==
  IF i > Len(agentConfigs) THEN <<>>
  ELSE LET out == startAgent(map, agentConfigs[i].id)
       IN IF out.ok
            THEN <<[success |-> TRUE, agentId |-> agentConfigs[i].id, error |-> ""]>>
                 \o startAllAgentsFailFast(map, i + 1)
          ELSE <<>>

\* startAllAgents(): the results of the loop over agentConfigs from the i-th on;
\* a startAgent that throws is caught and recorded
RECURSIVE startAllAgents(_, _)
startAllAgents(map, i) ==
  IF i > Len(agentConfigs) THEN <<>>
  ELSE LET out == startAgent(map, agentConfigs[i].id)
       IN <<[success |-> out.ok, agentId |-> agentConfigs[i].id, error |-> out.msg]>>
          \o startAllAgents(map, i + 1)

\* stopAllAgents(): one result for each entry of this.agents
stopAllAgents(map) ==
  [k \in DOMAIN map |->
     LET out == stopAgent(map, map[k].id)
     IN [success |-> out.ok, agentId |-> map[k].id, error |-> out.msg]]

\* POST /api/system/start-all.  Every startAgent of the loop throws before its
\* first await, so the loop ends before another handler runs
StartAllApi ==
  /\ self = "orchestrator"
  /\ http' = Api("start-all", "", 200, "", startAllAgents(agents, 1))
  /\ UNCHANGED <<self, supervisorVars, tasks, proc, accepted, registryVars, envVars>>

\* POST /api/system/stop-all
StopAllApi ==
  /\ self = "orchestrator"
  /\ http' = Api("stop-all", "", 200, "", stopAllAgents(agents))
  /\ agents' = [k \in DOMAIN agents |->
                  IF stopAgent(agents, agents[k].id).ok
                    THEN [agents[k] EXCEPT !.status = "stopped"] ELSE agents[k]]
  /\ UNCHANGED <<self, spawned, tasks, proc, accepted, registryVars, envVars>>

\* a tick of startHealthMonitoring: only agents with status running are checked
HealthTick ==
  /\ self = "orchestrator"
  /\ \A k \in DOMAIN agents : agents[k].status # "running"
  /\ UNCHANGED vars

\* GET /api/discovery/agents: performDiscovery() starts with an empty list
DiscoveryProxy ==
  /\ self = "orchestrator"
  /\ timer.port = 0
  /\ timer' = [port |-> 1, stable |-> TRUE]
  /\ discoveredAgents' = <<>>
  /\ UNCHANGED <<self, supervisorVars, taskVars, delegationCount, fallbackCount,
                 lastDiscovery, env, events>>

\* one iteration of the loop of the orchestrator's performDiscovery: the agent
\* card was served (online) or the request failed (offline); after the last
\* one the list is the response
ProxyProbe ==
  /\ self = "orchestrator"
  /\ timer.port > 0
  /\ LET config == agentConfigs[timer.port]
         found == Append(discoveredAgents,
                    [id |-> config.id, url |-> config.port,
                     status |-> IF env[timer.port].state \in {"down", "silent"} THEN "offline"
                                ELSE "online"])
     IN /\ discoveredAgents' = found
        /\ IF timer.port < Len(agentConfigs)
             THEN /\ timer' = [timer EXCEPT !.port = @ + 1]
                  /\ UNCHANGED http
             ELSE /\ timer' = [timer EXCEPT !.port = 0]
                  /\ http' = Api("discovery", "", 200, "", found)
  /\ UNCHANGED <<self, supervisorVars, tasks, proc, accepted, delegationCount,
                 fallbackCount, lastDiscovery, env, events>>

\* method.split('_') on the method names of the model
Parts(method) ==
  CASE method = "text_analysis" -> <<"text", "analysis">>
    [] method = "text_transform" -> <<"text", "transform">>
    [] method = "text_validation" -> <<"text", "validation">>
    [] method = "basic_math" -> <<"basic", "math">>
    [] method = "advanced_math" -> <<"advanced", "math">>
    [] method = "statistical_analysis" -> <<"statistical", "analysis">>
    [] method = "equation_solving" -> <<"equation", "solving">>
    [] method = "sentiment_analysis" -> <<"sentiment", "analysis">>
    [] method = "emotion_detection" -> <<"emotion", "detection">>
    [] method = "polarity_analysis" -> <<"polarity", "analysis">>
    [] method = "batch_sentiment" -> <<"batch", "sentiment">>
    [] method = "language_detection" -> <<"language", "detection">>
    [] method = "multilingual_analysis" -> <<"multilingual", "analysis">>
    [] method = "language_statistics" -> <<"language", "statistics">>
    [] method = "batch_language_detection" -> <<"batch", "language", "detection">>
    [] method = "math_quiz" -> <<"math", "quiz">>
    [] OTHER -> <<method>>

\* method.startsWith(word + '_')
StartsWith(method, word) == Len(Parts(method)) > 1 /\ Parts(method)[1] = word

\* method.includes(word); none of the names of the model has the word inside
\* one of its parts
Includes(method, word) == \E i \in DOMAIN Parts(method) : Parts(method)[i] = word

\* the smart routing of routeAndExecuteTask: the type, or "" when it throws
targetAgentType(method) ==
  CASE StartsWith(method, "text") -> "text-processor"
    [] StartsWith(method, "math") \/ Includes(method, "math") -> "math-calculator"
    [] \/ StartsWith(method, "sentiment") \/ Includes(method, "sentiment")
       \/ Includes(method, "emotion") -> "sentiment-analyzer"
    [] StartsWith(method, "language") \/ Includes(method, "language") -> "language-detector"
    [] OTHER -> ""

\* this.agentConfigs.find(c => c.type === targetAgentType)
targetConfig(type) ==
  agentConfigs[CHOOSE i \in DOMAIN agentConfigs :
                 /\ agentConfigs[i].type = type
                 /\ \A j \in 1..(i - 1) : agentConfigs[j].type # type]

\* the path of the POST of routeAndExecuteTask
rpcPath == "/json-rpc"

\* the paths for which the agents register a POST handler
PostRoutes == {"/rpc"}

\* the methods of the configured agents, and two that no agent lists
Capabilities == UNION {Range(agentConfigs[i].capabilities) : i \in DOMAIN agentConfigs}

RouteRequests ==
  {[jsonrpc |-> "2.0", method |-> m, params |-> TextOp("good day", ""), id |-> "req-1"] :
     m \in Capabilities \cup {"math_quiz", "translate"}}

\* POST /api/tasks/execute: routeAndExecuteTask(method, params) up to its POST.
\* tasks holds the calls and proc the position of each; a call that cannot be
\* routed is answered at once
RouteAndExecuteTask(req) ==
  /\ self = "orchestrator"
  /\ Len(tasks) < MaxRouted
  /\ LET call == NewTask(Len(tasks) + 1, req, "processing")
         type == targetAgentType(req.method)
     IN IF type = ""
          THEN /\ tasks' = Append(tasks, Failed(call, "Unable to route method"))
               /\ proc' = Append(proc, NewProc("done"))
               /\ http' = Api("execute", req.method, 500, "Unable to route method", <<>>)
          ELSE /\ tasks' = Append(tasks, call)
               /\ proc' = Append(proc, [NewProc("post") EXCEPT
                                          !.agent = [id |-> targetConfig(type).id,
                                                     type |-> type,
                                                     url |-> targetConfig(type).port,
                                                     rev |-> 0]])
               /\ UNCHANGED http
  /\ UNCHANGED <<self, supervisorVars, accepted, registryVars, envVars>>

\* the POST of routeAndExecuteTask is answered: the connection is refused, or
\* the agent has no handler for the path and answers 404, or it accepts the
\* request.  The POST has no timeout: a server that never replies never ends it
RouteReply(k) ==
  /\ self = "orchestrator"
  /\ proc[k].pc = "post"
  /\ ServerAt(proc[k].agent.url).state # "silent"
  /\ LET error == IF ServerAt(proc[k].agent.url).state = "down" THEN "connect ECONNREFUSED"
                  ELSE IF rpcPath \notin PostRoutes
                    THEN "Request failed with status code 404"
                  ELSE ""
     IN IF error # ""
          THEN /\ tasks' = [tasks EXCEPT ![k] = Failed(@, error)]
               /\ http' = Api("execute", tasks[k].method, 500, error, <<>>)
          ELSE /\ tasks' = [tasks EXCEPT ![k] = Completed(@, [kind |-> "accepted"])]
               /\ http' = Api("execute", tasks[k].method, 200, "", <<>>)
  /\ proc' = [proc EXCEPT ![k].pc = "done"]
  /\ UNCHANGED <<self, supervisorVars, accepted, registryVars, envVars>>

\* the orchestrator after its constructor; the agents may have been started by
\* hand
InitSupervisor ==
  /\ self = "orchestrator"
  /\ tasks = <<>>
  /\ proc = <<>>
  /\ http = NoApi
  /\ accepted = {}
  /\ discoveredAgents = <<>>
  /\ delegationCount = 0
  /\ fallbackCount = 0
  /\ lastDiscovery = "null"
  /\ events = 0
  /\ agents = <<>>
  /\ spawned = 0
  /\ timer = [port |-> 0, stable |-> TRUE]
  /\ env \in {AllDown(portRange), AllUp(portRange)}

NextSupervisor ==
  \/ \E agentId \in AgentIds : StartAgentApi(agentId)
  \/ \E agentId \in AgentIds : StopAgentApi(agentId)
  \/ \E agentId \in AgentIds : RestartAgentApi(agentId)
  \/ StartAllApi
  \/ StopAllApi
  \/ HealthTick
  \/ DiscoveryProxy
  \/ ProxyProbe
  \/ ServersNext

SpecSupervisor == InitSupervisor /\ [][NextSupervisor]_vars

\* the task routing of the orchestrator, while the agents start and stop
NextRoute ==
  \/ \E req \in RouteRequests : RouteAndExecuteTask(req)
  \/ \E k \in DOMAIN proc : RouteReply(k)
  \/ ServersNext

SpecRoute == InitSupervisor /\ [][NextRoute]_vars

\* a server stops replying: it still accepts connections
Silence == \E i \in DOMAIN env : EnvChange(i, "silent")

\* the next step of the k-th call of the client or of the orchestrator: the
\* answer to the request it awaits
CallStep(k) ==
  /\ k \in DOMAIN proc
  /\ \/ \E answer \in {"error", "task"} : ClientPost(k, answer)
     \/ \E expired \in BOOLEAN, answer \in {"processing", "completed", "failed", "error"} :
          ClientPoll(k, answer, expired)
     \/ RouteReply(k)

InitHang == InitClient \/ InitSupervisor

NextHang == NextClient \/ NextRoute \/ Silence

\* the client and the task routing of the orchestrator among servers that may
\* stop replying; an answer that a server sends is received
SpecHang ==
  InitHang /\ [][NextHang]_vars /\ \A k \in 1..MaxRouted : WF_vars(CallStep(k))

-----------------------------------------------------------------------------
(* The task store *)

Terminal == {"completed", "failed"}

StoreConsistent ==
  \A t \in DOMAIN tasks :
    /\ tasks[t].status = "completed" => Present(tasks[t].result)
    /\ tasks[t].status = "failed" => Present(tasks[t].error) \/ Present(tasks[t].message)
    /\ ~(Present(tasks[t].result) /\ (Present(tasks[t].error) \/ Present(tasks[t].message)))

\* a reader sees a completed task while another handler is at its await
StoreConsistentWitness ==
  \E t, u \in DOMAIN tasks :
    /\ tasks[t].status = "completed" /\ Present(tasks[t].result)
    /\ tasks[u].status = "processing" /\ proc[u].pc # "done"

\* C3: every task id carried by an acceptance response is found by GET /task
AcceptedResolvable ==
  \A taskId \in accepted : TaskResponse(tasks, taskId).code = 200

\* the id was accepted, and its task is read before, and after, its handler ended
AcceptedResolvableWitness ==
  /\ Cardinality(accepted) = 2
  /\ tasks[1].status = "failed"
  /\ tasks[2].status = "processing"
  /\ TaskResponse(tasks, 2).code = 200

\* C4: a request whose jsonrpc is not "2.0" is answered 400 with code -32600,
\* and neither a task nor a handler is created
VersionRejected ==
  [][\A req \in Malformed(self) :
       req.jsonrpc # "2.0" /\ (Rpc(req) \/ OrchestratorRpc(req)) =>
         /\ http' = RpcError(400, InvalidRequest)
         /\ tasks' = tasks
         /\ proc' = proc]_vars

\* Agent A, which answers -32600 for no other reason, has rejected a request
\* while it holds a task
VersionRejectedWitness ==
  /\ self = "agent-a"
  /\ http = RpcError(400, InvalidRequest)
  /\ Len(tasks) = 1
  /\ accepted = {1}

\* C5: a request that names a method the agent does not support creates no task
\* (it is answered 400 with code -32601)
UnknownMethodNoTask ==
  \A t \in DOMAIN tasks : tasks[t].method \in supportedMethods(self)

\* the request of C6: basic_math, divide, b = 0
DivideByZero(task) ==
  /\ task.method = "basic_math"
  /\ task.params.operation = "divide"
  /\ IsNumber(task.params.a)
  /\ task.params.b = Num(0)

\* C6: when a task handler throws (basic_math divide with b = 0), the request was
\* answered with an acceptance, never an RPC error, and once the handler has
\* run the task is failed with the thrown message as its error
HandlerFailureRecorded ==
  self \in LeafAgents \ {"agent1"} =>
    \A t \in DOMAIN tasks :
      /\ self = "agent-b" /\ DivideByZero(tasks[t]) =>
           /\ t \in accepted
           /\ tasks[t].status \in {"processing", "failed"}
           /\ proc[t].pc = "done" =>
                tasks[t].status = "failed" /\ tasks[t].error = Some("Division by zero")
      /\ ~Handler(self, tasks[t].method, tasks[t].params).ok =>
           /\ t \in accepted
           /\ tasks[t].status \in {"processing", "failed"}
           /\ proc[t].pc = "done" =>
                /\ tasks[t].status = "failed"
                /\ tasks[t].error = Some(Handler(self, tasks[t].method, tasks[t].params).msg)

\* Agent B accepted the division by zero, and its handler has thrown
HandlerFailureRecordedWitness ==
  /\ self = "agent-b"
  /\ \E t \in DOMAIN tasks :
       /\ DivideByZero(tasks[t])
       /\ http = RpcAccepted(t)
       /\ tasks[t].status = "failed"
       /\ tasks[t].error = Some("Division by zero")

-----------------------------------------------------------------------------
(* Discovery *)

\* the server answers the liveness request with status ok
Responding(server) == server.state = "up"

\* a pass of performDiscovery ends in this step, and the servers have stayed as
\* they were since it started
StablePassEnds ==
  /\ self = "agent-e"
  /\ \/ timer.port = Len(portRange) /\ timer'.port = 0 /\ timer.stable
     \/ \E t \in DOMAIN proc :
          /\ proc[t].pc = "discover" /\ proc[t].port = Len(portRange)
          /\ proc'[t].pc # "discover" /\ proc[t].stable

\* the registry holds a descriptor for an address exactly if its server responds,
\* and the descriptor is of the manifest the server publishes now
RegistryMatches(registry, servers) ==
  \A i \in DOMAIN portRange :
    IF Responding(servers[i])
      THEN \E k \in DOMAIN registry :
             registry[k].url = portRange[i] /\ registry[k].rev = servers[i].rev
      ELSE \A k \in DOMAIN registry : registry[k].url # portRange[i]

\* C7: after a pass of performDiscovery during which the responding addresses did
\* not change, the registry holds a descriptor for an address if and only if the
\* address responded in the pass, with the manifest fetched in the pass
SelfHealing == [][StablePassEnds => RegistryMatches(discoveredAgents', env)]_vars

\* C8: after a pass of discoverAgents, no descriptor is left for a port that
\* failed its probe in the pass, so getAgentsByType selects no agent there
FailedPortRemoved ==
  self = "client" /\ timer.port = 0 /\ timer.stable =>
    \A i \in DOMAIN discoveryPorts, type \in {AgentCard(port).type : port \in 4001..4005} :
      ~Responding(env[i]) =>
        \A k \in DOMAIN getAgentsByType(discoveredAgents, type) :
          getAgentsByType(discoveredAgents, type)[k].url # discoveryPorts[i]

-----------------------------------------------------------------------------
(* The counters of Agent E *)

Routed == {"intelligent_text_analysis", "smart_text_processing"}

OpValue(acc, operation) == IF operation = "sentiment" THEN acc.sentiment ELSE acc.language

\* the local variables of the handler of t before the step (none for a new task)
Before(t) == IF t \in DOMAIN proc THEN proc[t] ELSE NewProc("new")

\* the sub-operations the handler of t runs in this step without an await
Ran(t) ==
  LET first == IF Before(t).pc \in {"post", "poll"} THEN Before(t).op + 1
               ELSE IF Before(t).op = 0 THEN 1 ELSE Before(t).op
  IN first..(proc'[t].op - 1)

\* those for which the registry holds no agent of the required type
NoAgentOps(t) ==
  {k \in Ran(t) :
     /\ Operations(tasks'[t])[k] \in {"sentiment", "language"}
     /\ findAgentByType(discoveredAgents', RequiredType(Operations(tasks'[t])[k])) = NoAgent}

\* the delegation the handler of t awaited has ended in this step
Resolved(t) == Before(t).pc \in {"post", "poll"} /\ proc'[t].op > Before(t).op

\* ... with the result of the remote agent
DelegationSucceeded(t) ==
  /\ Resolved(t)
  /\ LET o == Operations(tasks'[t])[Before(t).op]
     IN OpValue(proc'[t].acc, o) # Some(FallbackValue(o, tasks'[t].params.text))

Count(b) == IF b THEN 1 ELSE 0

\* C9, as amended: each sentiment or language sub-operation run while the
\* registry holds no agent of its type is served by the local fallback and adds
\* exactly one to the fallback counter, and nothing to the delegation counter
FallbackPerOperation ==
  [][self = "agent-e" =>
       \A t \in DOMAIN proc' :
         NoAgentOps(t) # {} =>
           /\ \A k \in NoAgentOps(t) :
                LET o == Operations(tasks'[t])[k]
                IN /\ OpValue(proc'[t].acc, o) = Some(FallbackValue(o, tasks'[t].params.text))
                   /\ o \in Range(proc'[t].acc.fallbacks)
           /\ fallbackCount' = fallbackCount + Cardinality(NoAgentOps(t))
                                 + Count(Resolved(t) /\ ~DelegationSucceeded(t))
           /\ delegationCount' = delegationCount + Count(DelegationSucceeded(t))]_vars

\* a request whose two sub-operations found no agent was served by the fallbacks
FallbackPerOperationWitness ==
  /\ self = "agent-e"
  /\ Len(tasks) = 1
  /\ tasks[1].status = "completed"
  /\ proc[1].agent = NoAgent
  /\ proc[1].acc.fallbacks = <<"sentiment", "language">>
  /\ fallbackCount = 2
  /\ delegationCount = 0

\* C9, as stated: a request served while the registry holds no agent of the
\* required type adds exactly one to the fallback counter
FallbackOncePerRequest ==
  /\ self = "agent-e"
  /\ Len(tasks) = 1
  /\ tasks[1].method \in Routed
  /\ tasks[1].status = "completed"
  /\ proc[1].agent = NoAgent
  /\ proc[1].acc.fallbacks # <<>>
  => fallbackCount = 1 /\ delegationCount = 0

-----------------------------------------------------------------------------
(* The waits of Agent E *)

\* the sub-operation the handler of t awaited is served by the local fallback
ServedByFallback(t) ==
  LET o == Operations(tasks'[t])[proc[t].op]
  IN /\ proc'[t].op > proc[t].op
     /\ OpValue(proc'[t].acc, o) = Some(FallbackValue(o, tasks'[t].params.text))
     /\ o \in Range(proc'[t].acc.fallbacks)
     /\ fallbackCount' > fallbackCount
     /\ tasks'[t].status # "failed"

\* C11, as amended: while the handler polls, the ceiling has not elapsed at its
\* loop test; when the remote task is still processing at the loop test that
\* follows the ceiling, the delegation fails and the fallback serves the
\* sub-operation; and the wait ends at most one poll (the request timeout and
\* the sleep) after the ceiling
CeilingEndsWait ==
  [][self = "agent-e" =>
       \A t \in DOMAIN proc :
         proc[t].pc = "poll" =>
           /\ proc[t].elapsed < maxWaitTime
           /\ proc'[t].pc = "poll" => proc'[t].elapsed < maxWaitTime
           /\ proc'[t].pc # "poll" => proc'[t].over <= pollTimeout + pollSleep
           /\ \A get \in 0..pollTimeout :
                /\ DelegatePoll(t, "processing", get)
                /\ proc[t].elapsed + get + pollSleep >= maxWaitTime
                => ServedByFallback(t)]_vars

\* the remote task was still processing when the ceiling elapsed, and the request
\* was served by the fallback
CeilingEndsWaitWitness ==
  /\ self = "agent-e"
  /\ Len(tasks) = 1
  /\ tasks[1].status = "completed"
  /\ proc[1].slept
  /\ proc[1].over = pollTimeout
  /\ proc[1].acc.fallbacks # <<>>
  /\ proc[1].agent # NoAgent

\* C11, as stated: the request never waits beyond the ceiling for the remote agent
WaitWithinCeiling ==
  \A t \in DOMAIN proc : proc[t].over = 0

\* a request to the remote agent has failed in this step: the POST (no connection,
\* or an RPC error response), a poll, the remote task, or the ceiling
RemoteFailure(t) ==
  \/ DelegatePost(t, "error")
  \/ \E get \in 0..pollTimeout :
       \/ DelegatePoll(t, "failed", get)
       \/ DelegatePoll(t, "error", get)
       \/ DelegatePoll(t, "processing", get) /\ proc'[t].pc # "poll"

\* C12: for a routed task with non-empty text every failure of a remote agent is
\* absorbed: the fallback serves the sub-operation, and the task ends completed,
\* never failed
RemoteFailureAbsorbed ==
  [][self = "agent-e" =>
       /\ \A t \in DOMAIN proc : RemoteFailure(t) => ServedByFallback(t)
       /\ \A t \in DOMAIN proc' :
            tasks'[t].method \in Routed /\ tasks'[t].params.text # "" =>
              /\ tasks'[t].status # "failed"
              /\ proc'[t].pc = "done" => tasks'[t].status = "completed"]_vars

\* both delegations of a request failed, and the task is completed with the two
\* fallback results
RemoteFailureAbsorbedWitness ==
  /\ self = "agent-e"
  /\ Len(tasks) = 1
  /\ tasks[1].method = "intelligent_text_analysis"
  /\ tasks[1].status = "completed"
  /\ Len(discoveredAgents) = Len(portRange)
  /\ proc[1].acc.agents = <<>>
  /\ proc[1].slept
  /\ tasks[1].result[1].sentiment_analysis =
       Some(FallbackValue("sentiment", tasks[1].params.text))
  /\ tasks[1].result[1].language_detection =
       Some(FallbackValue("language", tasks[1].params.text))

\* C13: every task accepted by Agent E eventually reaches completed or failed,
\* whatever the remote agents answer and however long they take to finish
TaskTerminates ==
  \A t \in 1..MaxRouted :
    (t \in DOMAIN tasks) ~> (t \in DOMAIN tasks /\ tasks[t].status \in Terminal)

\* a task that ran a discovery pass, posted to an agent and polled it has ended
\* although a remote agent gave no result
TaskTerminatesWitness ==
  /\ self = "agent-e"
  /\ Len(tasks) = 1
  /\ tasks[1].status \in Terminal
  /\ proc[1].port = Len(portRange)
  /\ proc[1].slept
  /\ proc[1].acc.fallbacks # <<>>

\* the sentiment of task t was asked of Agent E while no agent was registered, and
\* the task is completed
SentimentWithoutAgents(t) ==
  /\ self = "agent-e"
  /\ tasks[t].method \in Routed
  /\ tasks[t].status = "completed"
  /\ "sentiment" \in Range(proc[t].acc.fallbacks)
  /\ proc[t].agent = NoAgent

\* the result of sentimentFallback in the result of task t
SentimentResult(t) ==
  LET result == tasks[t].result[1]
  IN IF tasks[t].method = "intelligent_text_analysis" THEN result.sentiment_analysis[1]
     ELSE result.sentiment[1]

\* the label part of C14: the result carries one of the three labels
FallbackHasLabel ==
  \A t \in DOMAIN tasks :
    SentimentWithoutAgents(t) =>
      SentimentResult(t).sentiment \in {"positive", "negative", "neutral"}

\* C14, as stated: with no agents registered, a sentiment request handled by Agent E
\* returns a result that contains a sentiment label and whose fallback_used field
\* is true
FallbackUsedIsTrue ==
  \A t \in DOMAIN tasks :
    SentimentWithoutAgents(t) =>
      /\ SentimentResult(t).sentiment \in {"positive", "negative", "neutral"}
      /\ "fallback_used" \in DOMAIN tasks[t].result[1]
      /\ tasks[t].result[1].fallback_used = JsBoolean(TRUE)

\* C15: a pass of performDiscovery run right after a pass, with the servers and
\* their manifests as they were, leaves the registry as the first pass left it:
\* the same keys, the same descriptors, in the same order
DiscoveryIdempotent ==
  [][StablePassEnds =>
       performDiscovery(discoveredAgents', env') = discoveredAgents']_vars

\* a pass that started after a server had changed has ended over servers that
\* stayed as they were, with several agents registered and a server that is not
\* registered
DiscoveryIdempotentWitness ==
  /\ self = "agent-e"
  /\ events > 0
  /\ timer = [port |-> 0, stable |-> TRUE]
  /\ lastDiscovery = "timestamp"
  /\ Len(discoveredAgents) > 1
  /\ Len(discoveredAgents) < Len(portRange)
  /\ performDiscovery(discoveredAgents, env) = discoveredAgents

\* a pass of performDiscovery has probed a port in this step and goes on to its
\* next port
PassGoesOn ==
  /\ self = "agent-e"
  /\ \/ TimerProbe /\ timer'.port # 0
     \/ \E t \in DOMAIN proc : TaskProbe(t) /\ proc'[t].pc = "discover"

\* C16, as stated: a pass in flight exposes no partial update, so that a read of
\* the registry returns the outcome of the most recently completed pass; the
\* registry changes only in the step that ends a pass
NoPartialUpdate ==
  [][PassGoesOn => discoveredAgents' = discoveredAgents]_vars

\* the delegation of task t fails in this step because the remote agent is
\* unreachable (its server is down when the POST or a poll is sent) or because
\* the wait for its task runs into the ceiling
RemoteUnavailable(t) ==
  \/ DelegatePost(t, "error") /\ ServerAt(proc[t].agent.url).state = "down"
  \/ \E get \in 0..pollTimeout :
       \/ DelegatePoll(t, "error", get) /\ ServerAt(proc[t].agent.url).state = "down"
       \/ DelegatePoll(t, "processing", get) /\ proc'[t].pc # "poll"

\* C17, as stated: when a delegation fails because the remote agent is unreachable
\* or times out, the descriptor of that agent is removed from the registry as part
\* of handling the failure
StaleDescriptorPruned ==
  [][self = "agent-e" =>
       \A t \in DOMAIN proc :
         RemoteUnavailable(t) =>
           \A k \in DOMAIN discoveredAgents' :
             discoveredAgents'[k].url # proc[t].agent.url]_vars

\* the sentiment and language sub-operations the handler of t has served by the
\* fallback in this step, without a delegation
FellBackOps(t) ==
  {k \in Ran(t) : /\ Operations(tasks'[t])[k] \in {"sentiment", "language"}
                  /\ Operations(tasks'[t])[k] \in Range(proc'[t].acc.fallbacks)}

\* C18: a routed request that finds the registry empty runs one discovery pass
\* before it selects an agent: it starts the pass without having run a
\* sub-operation, the pass probes each port once and is not run again, and when
\* the pass ends a sub-operation is served by the fallback only if the registry
\* then holds no agent of its type; otherwise the agent found is selected
DiscoverOnceBeforeFallback ==
  [][self = "agent-e" =>
       /\ \A req \in RoutedRequests :
            /\ OrchestratorRpc(req)
            /\ RpcCheck(self, req) = 0
            /\ req.params.text # ""
            /\ discoveredAgents = <<>>
            => /\ proc'[Len(tasks')] = [NewProc("discover") EXCEPT !.port = 1]
               /\ tasks'[Len(tasks')].status = "processing"
               /\ fallbackCount' = fallbackCount
       /\ \A t \in DOMAIN proc :
            tasks[t].method \in Routed =>
              /\ proc[t].pc # "discover" => proc'[t].pc # "discover"
              /\ proc[t].pc = "discover" /\ ~TaskProbe(t) =>
                   /\ proc'[t].pc = "discover"
                   /\ proc'[t].port = proc[t].port
              /\ TaskProbe(t) /\ proc[t].port < Len(portRange) =>
                   /\ proc'[t].pc = "discover"
                   /\ proc'[t].port = proc[t].port + 1
                   /\ proc'[t].acc = proc[t].acc
              /\ TaskProbe(t) /\ proc[t].port = Len(portRange) =>
                   /\ proc'[t].pc \in {"post", "done"}
                   /\ FellBackOps(t) \subseteq NoAgentOps(t)
                   /\ proc'[t].pc = "post" =>
                        /\ proc'[t].agent # NoAgent
                        /\ proc'[t].agent =
                             findAgentByType(discoveredAgents',
                               RequiredType(Operations(tasks'[t])[proc'[t].op]))]_vars

\* a request that found the registry empty has run its pass, has then delegated
\* the sentiment to the agent the pass registered and has served the language
\* by the fallback
DiscoverOnceBeforeFallbackWitness ==
  /\ self = "agent-e"
  /\ Len(tasks) = 1
  /\ tasks[1].method \in Routed
  /\ tasks[1].status = "completed"
  /\ proc[1].port = Len(portRange)
  /\ proc[1].acc.agents = <<"Agent C (sentiment)">>
  /\ proc[1].acc.fallbacks = <<"language">>

\* the handler of t selects an agent in this step
Selects(t) == proc'[t].pc = "post" /\ (t \in DOMAIN proc => proc[t].pc # "post")

\* the type the handler of t asks the registry for
SelectedType(t) ==
  IF self = "client" THEN methodToAgentType(tasks'[t].method)
  ELSE RequiredType(Operations(tasks'[t])[proc'[t].op])

\* d is of the type, and no descriptor of the type was registered before it
FirstRegistered(registry, type, d) ==
  \E i \in DOMAIN registry :
    /\ registry[i] = d
    /\ d.type = type
    /\ \A j \in 1..(i - 1) : registry[j].type # type

UnknownMethodThrown ==
  [][\A req \in ClientRequests :
       ExecuteTaskAutomatically(req) /\ req.method \notin MethodKeys =>
         /\ tasks'[Len(tasks')].status = "failed"
         /\ tasks'[Len(tasks')].error = Some("Unknown method")
         /\ proc'[Len(proc')].pc = "done"
         /\ proc'[Len(proc')].agent = NoAgent
         /\ discoveredAgents' = discoveredAgents]_vars

-----------------------------------------------------------------------------
(* The polling waiters *)

\* the waiter of task t reads the polled task with status failed in this step
ReadsFailed(t) ==
  \/ \E expired \in BOOLEAN : ChainPoll(t, "failed", expired)
  \/ \E expired \in BOOLEAN : ClientPoll(t, "failed", expired)

\* C21, as stated: a polling waiter that reads the polled task with status failed
\* stops polling and rejects with that task's failure: the caller's task fails in
\* that step, not when the waiter's own timeout runs out
FailedReadStopsPolling ==
  [][\A t \in DOMAIN proc :
       ReadsFailed(t) =>
         /\ proc'[t].pc = "done"
         /\ tasks'[t].status = "failed"
         /\ tasks'[t].message # Some("Agent2 task timeout")]_vars

-----------------------------------------------------------------------------
(* Concurrent tasks *)

\* C22: tasks submitted concurrently to one agent are isolated: each accepted task
\* has an id and a record of its own, a handler changes the record of its own
\* task only, and the outcome of a task is computed from the method and params
\* of that task, however the handlers of the other tasks interleave
TasksIsolated ==
  [][(self \in LeafAgents \ {"agent1"}) =>
       /\ \A t, u \in DOMAIN tasks' : t # u => tasks'[t].id # tasks'[u].id
       /\ \A t \in DOMAIN tasks :
            /\ tasks'[t].id = tasks[t].id
            /\ tasks'[t].method = tasks[t].method
            /\ tasks'[t].params = tasks[t].params
            /\ ProcessTask(t) =>
                 \A u \in DOMAIN tasks \ {t} : tasks'[u] = tasks[u] /\ proc'[u] = proc[u]
       /\ \A t \in DOMAIN tasks' :
            (LET out == Handler(self, tasks'[t].method, tasks'[t].params)
             IN /\ tasks'[t].status = "completed" =>
                     out.ok /\ tasks'[t].result = Some(out.val)
                /\ tasks'[t].status = "failed" =>
                     ~out.ok /\ tasks'[t].error = Some(out.msg))]_vars

\* two tasks with different params are stored; the one accepted last is completed
\* with its own result while the handler of the first still waits for its timer
TasksIsolatedWitness ==
  /\ self = "agent-server"
  /\ Len(tasks) = 2
  /\ tasks[1].params # tasks[2].params
  /\ proc[1].pc = "timer"
  /\ tasks[1].status # "completed"
  /\ tasks[2].status = "completed"
  /\ tasks[2].result = Some(Handler(self, tasks[2].method, tasks[2].params).val)
  /\ tasks[2].result # Some(Handler(self, tasks[1].method, tasks[1].params).val)

-----------------------------------------------------------------------------
(* The supervisor of the agent processes *)

Running(map, agentId) == Tracked(map, agentId) /\ Record(map, agentId).status = "running"

\* the message of waitForAgent when the liveness endpoint has not answered
StartTimeout == "Agent did not start within 10000ms"

\* C24: a start call for a configured agent that is not running spawns exactly
\* one process and tracks the agent with status starting
StartSpawnsOnce ==
  [][\A agentId \in ConfigIds :
       (StartAgentApi(agentId) /\ ~Running(agents, agentId)) =>
         /\ spawned' = spawned + 1
         /\ Tracked(agents', agentId)
         /\ Record(agents', agentId).status = "starting"]_vars

\* C25: a start call for a configured agent whose liveness endpoint does not
\* answer fails with the start-timeout error, and the spawned process stays
\* attached to the agent's record, which is not marked running
StartFailsWithTimeout ==
  [][\A i \in DOMAIN agentConfigs :
       (/\ StartAgentApi(agentConfigs[i].id)
        /\ ~Running(agents, agentConfigs[i].id)
        /\ env[i].state = "down"
        /\ http'.code = 500) =>
         /\ http'.error = StartTimeout
         /\ Tracked(agents', agentConfigs[i].id)
         /\ Record(agents', agentConfigs[i].id).process
         /\ Record(agents', agentConfigs[i].id).status # "running"]_vars

Outcome(r) == r.success \/ r.error # ""

-----------------------------------------------------------------------------
(* The polling loops *)

\* C31: Agent E's wait goes on polling until it reads completed or failed or
\* the ceiling elapses: a read that fails while the ceiling has not elapsed
\* leaves the handler polling
ReadErrorKeepsPolling ==
  [][\A t \in DOMAIN proc, get \in 0..pollTimeout :
       (/\ DelegatePoll(t, "error", get)
        /\ proc[t].elapsed + get + pollSleep < maxWaitTime) =>
         proc'[t].pc = "poll"]_vars

\* the pass of the timer, or the pass awaited by a task, probes the i-th port in
\* this step
Probes(i) ==
  \/ TimerProbe /\ timer.port = i
  \/ \E t \in DOMAIN proc : TaskProbe(t) /\ proc[t].port = i

\* C32: when the liveness endpoint of an address answers with a status that is
\* not ok, the pass removes the descriptors registered for that address
NotOkRemoved ==
  [][\A i \in DOMAIN portRange :
       (Probes(i) /\ env[i].state = "notok") =>
         \A k \in DOMAIN discoveredAgents' : discoveredAgents'[k].url # portRange[i]]_vars

\* the waiter of task t goes from one status read to the next in this step
ReadsAgain(t) ==
  /\ proc[t].pc = "poll"
  /\ proc'[t].pc = "poll"
  /\ proc'[t].polls # proc[t].polls \/ proc'[t].elapsed # proc[t].elapsed

\* C33: in every polling loop two consecutive status reads of a task are
\* separated by the sleep of the poll interval, whatever the first read returned
SleepBetweenReads ==
  [][\A t \in DOMAIN proc : ReadsAgain(t) => proc'[t].slept]_vars

\* C34: every call of executeTaskAutomatically and of routeAndExecuteTask
\* eventually returns, with a result or an error, also when the selected agent
\* accepts the connection and never replies
CallReturns ==
  \A k \in 1..MaxRouted :
    (k \in DOMAIN proc) ~> (k \in DOMAIN proc /\ proc[k].pc = "done")

-----------------------------------------------------------------------------
(* The task routing of the supervisor *)

\* the type of the configured agent that lists the method among its capabilities
ListedType(method) ==
  agentConfigs[CHOOSE i \in DOMAIN agentConfigs :
                 method \in Range(agentConfigs[i].capabilities)].type

\* C40: a call with a method that a configured agent lists selects the type of
\* that agent, its POST reaches a handler of the agent when the agent is up, and
\* 'Unable to route method' is reported only for methods no agent lists
ListedMethodRouted ==
  [][/\ \A req \in RouteRequests :
          (RouteAndExecuteTask(req) /\ req.method \in Capabilities) =>
            /\ http'.error # "Unable to route method"
            /\ proc'[Len(proc')].pc = "post"
            /\ proc'[Len(proc')].agent.type = ListedType(req.method)
     /\ \A k \in DOMAIN proc :
          (RouteReply(k) /\ ServerAt(proc[k].agent.url).state = "up") => http'.code = 200]_vars

-----------------------------------------------------------------------------
(* The counters of Agent E *)

\* the sentiment and language sub-operations that the handler at pr has finished
FinishedOps(task, pr) ==
  Cardinality({k \in DOMAIN Operations(task) :
                 k < pr.op /\ Operations(task)[k] \in {"sentiment", "language"}})

\* ... and those finished by the handlers of the first n tasks
RECURSIVE Finished(_, _, _)
Finished(ts, prs, n) ==
  IF n = 0 THEN 0 ELSE Finished(ts, prs, n - 1) + FinishedOps(ts[n], prs[n])

\* C38: neither counter of Agent E ever decreases, and after every step their
\* sum is the number of sentiment and language sub-operations that have
\* finished, however the handlers of several tasks interleave
CountersCountOperations ==
  [][self = "agent-e" =>
       /\ delegationCount' >= delegationCount
       /\ fallbackCount' >= fallbackCount
       /\ delegationCount' + fallbackCount' = Finished(tasks', proc', Len(tasks'))
       /\ (delegationCount' - delegationCount) + (fallbackCount' - fallbackCount)
            = Finished(tasks', proc', Len(tasks')) - Finished(tasks, proc, Len(tasks))]_vars

\* two tasks were in flight together; the first has finished a sub-operation by
\* delegation and one by fallback while the second awaited its own delegation
CountersWitness ==
  /\ self = "agent-e"
  /\ Len(tasks) = 2
  /\ proc[1].pc = "done"
  /\ proc[1].acc.delegation_used
  /\ proc[1].acc.fallbacks # <<>>
  /\ proc[2].pc = "poll"
  /\ FinishedOps(tasks[2], proc[2]) = 1
  /\ delegationCount >= 1
  /\ fallbackCount >= 1
  /\ delegationCount + fallbackCount = 3

-----------------------------------------------------------------------------
(* The registry of Agent E *)

\* C39: the registry of Agent E never holds two descriptors for one address,
\* and the descriptor of an address probed in this step is stored under the id
\* of the card just fetched from it
OneDescriptorPerUrl ==
  [][self = "agent-e" =>
       /\ \A j, k \in DOMAIN discoveredAgents' :
            discoveredAgents'[j].url = discoveredAgents'[k].url => j = k
       /\ \A i \in DOMAIN portRange :
            (Probes(i) /\ env[i].state = "up") =>
              \E k \in DOMAIN discoveredAgents' :
                /\ discoveredAgents'[k].url = portRange[i]
                /\ discoveredAgents'[k].id = env[i].id]_vars

====
